---- MODULE Spec2Model ----
(***************************************************************************)
(* Pending-edit reconciliation of obsidian-claude-code: the LCS line diff, *)
(* the hunk grouper and the PendingEditsManager store.                     *)
(*                                                                         *)
(* A text is a sequence of one-character strings; a line is such a         *)
(* sequence without "\n".  Line numbers are zero-based as in the code.     *)
(***************************************************************************)
EXTENDS Integers, Sequences, FiniteSets, TLC

VARIABLES
  dOld,     \* diff specification: the old text handed to the diff engine
  dNew,     \* diff specification: the new text
  dStage,   \* "input", "diffed" (computeLineDiff ran), "hunked" (computeHunks ran), "off"
  dDiff,    \* the DiffLine sequence computeLineDiff returned
  dHunks,   \* the Hunk sequence computeHunks returned
  env,      \* the environment of the run: its paths, texts, budgets and scheduling
  disk,     \* path -> <<>> (no such file) or <<content>>
  captures,            \* PendingEditsManager.captures: toolUseId -> <<>> or <<capture>>
  originalFileStates,  \* PendingEditsManager.originalFileStates, in insertion order
  pendingFiles,        \* pendingFilesAtom: the published PendingFile list
  pendingEdits,        \* pendingEditsAtom: the legacy per-tool-call list
  tasks,    \* the asynchronous operations in flight, each with its locals and await point
  nOps,     \* tool-call ids handed out so far
  nDecisions, \* overlapping runs: hunk decisions begun so far
  nWrites,  \* external changes of files so far
  last,     \* the step taken last: operation, await point, task, arguments, outcome
  stream,   \* runClaudeChat: the CLI output still to arrive, buffer, segments, handlers
  decorations \* pendingEditsPlugin.decorations of the editor that shows the file

diffVars == <<dOld, dNew, dStage, dDiff, dHunks>>
storeVars == <<env, disk, captures, originalFileStates, pendingFiles, pendingEdits,
               tasks, nOps, nDecisions, nWrites, last>>
streamVars == <<stream>>
viewVars == <<decorations>>
vars == <<dOld, dNew, dStage, dDiff, dHunks, env, disk, captures, originalFileStates,
          pendingFiles, pendingEdits, tasks, nOps, nDecisions, nWrites, last, stream,
          decorations>>

\* ------------------------------------------------------------------ bounds
\* Number of lines of the texts the diff specification enumerates.
MaxLines == 3
\* Edit-tool calls (captures) in one run of the store.
MaxOps == 2
\* Outside changes of files in one run of the store.
MaxWrites == 2
\* Hunk numbers a decision may name: hunk-0 .. hunk-MaxHunkId.
MaxHunkId == 2
\* Hunk decisions begun in one overlapping run.
MaxDecisions == 3

\* ------------------------------------------------------------ text helpers
NL == "\n"
\* The value of an absent optional field (oldLine of an added line, ...).
undefined == -1

Max(a, b) == IF a >= b THEN a ELSE b
Min(a, b) == IF a <= b THEN a ELSE b

\* s.split('\n'): always at least one line; a trailing "\n" gives a last empty line.
RECURSIVE splitLoop(_, _, _, _)
splitLoop(s, k, cur, acc) ==
  IF k > Len(s) THEN Append(acc, cur)
  ELSE IF s[k] = NL THEN splitLoop(s, k + 1, <<>>, Append(acc, cur))
  ELSE splitLoop(s, k + 1, Append(cur, s[k]), acc)

\* Variant: a final "\n" does not open a last empty line.
splitDroppingLastEmpty(s) ==
  LET lines == splitLoop(s, 1, <<>>, <<>>)
  IN IF Len(lines) > 1 /\ lines[Len(lines)] = <<>> THEN SubSeq(lines, 1, Len(lines) - 1)
     ELSE lines

split(s) == splitLoop(s, 1, <<>>, <<>>)

\* lines.join('\n'): the empty array gives the empty string.
RECURSIVE join(_)
join(lines) ==
  IF Len(lines) = 0 THEN <<>>
  ELSE IF Len(lines) = 1 THEN lines[1]
  ELSE lines[1] \o <<NL>> \o join(Tail(lines))

\* content.trim() === '' for the whitespace the model's texts contain.
isBlank(content) == \A k \in 1..Len(content) : content[k] \in {" ", "\t", NL}

\* x ?? 0
orZero(x) == IF x = undefined THEN 0 ELSE x

\* ------------------------------------------------------------ Diff Engine
\* The LCS table: lcs[i][j] over the first i old and the first j new lines.
lcsTable(oldLines, newLines) ==
  LET lcs[i \in 0..Len(oldLines), j \in 0..Len(newLines)] ==
        IF i = 0 \/ j = 0 THEN 0
        ELSE IF oldLines[i] = newLines[j] THEN lcs[i - 1, j - 1] + 1
        ELSE Max(lcs[i - 1, j], lcs[i, j - 1])
  IN lcs

contextLine(oldLines, i, j) ==
  [type |-> "context", oldLine |-> i - 1, newLine |-> j - 1, content |-> oldLines[i]]
addedLine(newLines, j) ==
  [type |-> "added", oldLine |-> undefined, newLine |-> j - 1, content |-> newLines[j]]
removedLine(oldLines, i) ==
  [type |-> "removed", oldLine |-> i - 1, newLine |-> undefined, content |-> oldLines[i]]

\* Variant: the new-side move only when it scores better.
takeAddedOnlyIfBetter(lcs, i, j) == j > 0 /\ (i = 0 \/ lcs[i, j - 1] > lcs[i - 1, j])

\* The tie-break of the backtrack: the new-side move when it scores no worse.
takeAdded(lcs, i, j) == j > 0 /\ (i = 0 \/ lcs[i, j - 1] >= lcs[i - 1, j])

\* The backtrack loop from (i, j); unshift puts later steps in front, so the
\* line of this step follows the lines of the steps after it.
RECURSIVE backtrack(_, _, _, _, _)
backtrack(oldLines, newLines, lcs, i, j) ==
  IF ~(i > 0 \/ j > 0) THEN <<>>
  ELSE IF i > 0 /\ j > 0 /\ oldLines[i] = newLines[j]
    THEN Append(backtrack(oldLines, newLines, lcs, i - 1, j - 1), contextLine(oldLines, i, j))
  ELSE IF takeAdded(lcs, i, j)
    THEN Append(backtrack(oldLines, newLines, lcs, i, j - 1), addedLine(newLines, j))
  ELSE Append(backtrack(oldLines, newLines, lcs, i - 1, j), removedLine(oldLines, i))

computeLineDiff(oldContent, newContent) ==
  LET oldLines == split(oldContent)
      newLines == split(newContent)
  IN backtrack(oldLines, newLines, lcsTable(oldLines, newLines),
               Len(oldLines), Len(newLines))

\* ------------------------------------------------------------ Hunk Grouper
\* Characters of content a preview keeps for each line.
PreviewChars == 25

hasChange(lines) == \E k \in 1..Len(lines) : lines[k].type # "context"

\* lines.filter(l => l.type !== 'context')
RECURSIVE changedLines(_)
changedLines(lines) ==
  IF Len(lines) = 0 THEN <<>>
  ELSE IF lines[1].type # "context" THEN <<lines[1]>> \o changedLines(Tail(lines))
  ELSE changedLines(Tail(lines))

previewLine(l) ==
  <<IF l.type = "added" THEN "+" ELSE "-">>
    \o SubSeq(l.content, 1, Min(PreviewChars, Len(l.content)))
    \o (IF Len(l.content) > PreviewChars THEN <<".", ".", ".">> ELSE <<>>)

emptyChangeText ==
  <<"(", "e", "m", "p", "t", "y", " ", "c", "h", "a", "n", "g", "e", ")">>

\* The preview of a hunk: its first two changed lines, joined by a space.
previewOf(lines) ==
  LET changed == changedLines(lines)
      preview == IF Len(changed) = 0 THEN <<>>
                 ELSE IF Len(changed) = 1 THEN previewLine(changed[1])
                 ELSE previewLine(changed[1]) \o <<" ">> \o previewLine(changed[2])
  IN IF preview = <<>> THEN emptyChangeText ELSE preview

\* The id `hunk-${id}` is kept as the pair of its prefix and its number.
hunkName(id) == <<"hunk-", id>>

createHunk(id, startLineOld, startLineNew, lines) ==
  [id |-> hunkName(id), startLineOld |-> startLineOld, startLineNew |-> startLineNew,
   lines |-> lines, preview |-> previewOf(lines), status |-> "pending"]

\* The loop variables of computeHunks before the first line.
hunkLoopInit ==
  [hunks |-> <<>>, currentHunk |-> <<>>, hunkStartOld |-> 0, hunkStartNew |-> 0,
   hunkId |-> 0, inChangeBlock |-> FALSE, hasSeenAdd |-> FALSE]

\* Variant: the open hunk is saved even when it holds only context.
pushHunkAlways(st) ==
  [st EXCEPT !.hunks = Append(@, createHunk(st.hunkId, st.hunkStartOld,
                                            st.hunkStartNew, st.currentHunk)),
             !.hunkId = @ + 1]

\* hunks.push(createHunk(hunkId++, ...)) when the open hunk holds a change.
pushHunk(st) ==
  IF hasChange(st.currentHunk)
    THEN [st EXCEPT !.hunks = Append(@, createHunk(st.hunkId, st.hunkStartOld,
                                                   st.hunkStartNew, st.currentHunk)),
                    !.hunkId = @ + 1]
    ELSE st

\* Variant: the next hunk starts with every line of the saved one.
splitBeforeRemovedKeepingAll(st) == [pushHunk(st) EXCEPT !.hasSeenAdd = FALSE]

\* A removed line after an added one in the open change block: the open hunk is
\* saved and the next one starts from the last line if that is blank context.
splitBeforeRemoved(st) ==
  LET saved == pushHunk(st)
      n == Len(st.currentHunk)
  IN IF n > 0 /\ st.currentHunk[n].type = "context" /\ isBlank(st.currentHunk[n].content)
       THEN [saved EXCEPT !.currentHunk = <<st.currentHunk[n]>>,
                          !.hunkStartOld = orZero(st.currentHunk[n].oldLine),
                          !.hunkStartNew = orZero(st.currentHunk[n].newLine),
                          !.hasSeenAdd = FALSE]
       ELSE [saved EXCEPT !.currentHunk = <<>>, !.hasSeenAdd = FALSE]

\* Context-only lines before a change: only the last one leads the hunk.
keepLeadingContext(st) ==
  LET n == Len(st.currentHunk)
  IN IF ~st.inChangeBlock /\ n > 0
       THEN [st EXCEPT !.currentHunk = <<st.currentHunk[n]>>,
                       !.hunkStartOld = orZero(st.currentHunk[n].oldLine),
                       !.hunkStartNew = orZero(st.currentHunk[n].newLine)]
       ELSE st

startAtLine(st, line) ==
  IF Len(st.currentHunk) = 0
    THEN [st EXCEPT !.hunkStartOld = orZero(line.oldLine),
                    !.hunkStartNew = orZero(line.newLine)]
    ELSE st

\* Variant: the saved hunk's lines are not cleared.
closeOnContextKeepingLines(st, line) ==
  IF st.inChangeBlock
    THEN [pushHunk([st EXCEPT !.currentHunk = Append(@, line)])
            EXCEPT !.currentHunk = Append(st.currentHunk, line),
                   !.inChangeBlock = FALSE, !.hasSeenAdd = FALSE]
    ELSE [st EXCEPT !.currentHunk = Append(@, line)]

\* A non-blank context line: it trails the open hunk and closes it.
closeOnContext(st, line) ==
  IF st.inChangeBlock
    THEN [pushHunk([st EXCEPT !.currentHunk = Append(@, line)])
            EXCEPT !.currentHunk = <<>>, !.inChangeBlock = FALSE, !.hasSeenAdd = FALSE]
    ELSE [st EXCEPT !.currentHunk = Append(@, line)]

\* Variant: a blank context line closes the open hunk like any context line.
hunkStepClosingOnBlank(st, line) ==
  IF line.type # "context"
    THEN LET s1 == IF line.type = "removed" /\ st.hasSeenAdd /\ st.inChangeBlock
                     THEN splitBeforeRemoved(st) ELSE st
             s2 == startAtLine(keepLeadingContext(s1), line)
         IN [s2 EXCEPT !.currentHunk = Append(@, line),
                       !.inChangeBlock = TRUE,
                       !.hasSeenAdd = @ \/ line.type = "added"]
  ELSE closeOnContext(st, line)

\* One iteration of the loop over the diff lines.
hunkStep(st, line) ==
  IF line.type # "context"
    THEN LET s1 == IF line.type = "removed" /\ st.hasSeenAdd /\ st.inChangeBlock
                     THEN splitBeforeRemoved(st) ELSE st
             s2 == startAtLine(keepLeadingContext(s1), line)
         IN [s2 EXCEPT !.currentHunk = Append(@, line),
                       !.inChangeBlock = TRUE,
                       !.hasSeenAdd = @ \/ line.type = "added"]
  ELSE IF isBlank(line.content)
    THEN [st EXCEPT !.currentHunk = Append(@, line)]
  ELSE closeOnContext(st, line)

RECURSIVE hunkLoop(_, _, _)
hunkLoop(st, diffLines, k) ==
  IF k > Len(diffLines) THEN st ELSE hunkLoop(hunkStep(st, diffLines[k]), diffLines, k + 1)

\* The hunks of a diff: the loop, then the last open hunk.
hunksOfDiff(diffLines) ==
  IF Len(diffLines) = 0 THEN <<>>
  ELSE LET st == hunkLoop(hunkLoopInit, diffLines, 1)
       IN IF Len(st.currentHunk) > 0 THEN pushHunk(st).hunks ELSE st.hunks

computeHunks(oldContent, newContent) == hunksOfDiff(computeLineDiff(oldContent, newContent))

\* ------------------------------------------------- applying hunk decisions
sameLine(a, b) ==
  a.type = b.type /\ a.content = b.content /\ a.oldLine = b.oldLine /\ a.newLine = b.newLine

hunkHasLine(h, line) == \E k \in 1..Len(h.lines) : sameLine(h.lines[k], line)

\* hunks.find(h => h.lines.some(...))?.status, "none" when no hunk holds the line.
statusOfLine(hunks, line) ==
  IF \E k \in 1..Len(hunks) : hunkHasLine(hunks[k], line)
    THEN hunks[CHOOSE k \in 1..Len(hunks) :
                 /\ hunkHasLine(hunks[k], line)
                 /\ \A q \in 1..(k - 1) : ~hunkHasLine(hunks[q], line)].status
    ELSE "none"

\* Variant: a removed line is never put back.
keepsLineNeverRestoring(hunks, line) ==
  CASE line.type = "context" -> TRUE
    [] line.type = "added" -> statusOfLine(hunks, line) \in {"accepted", "pending"}
    [] OTHER -> FALSE

\* Whether the line-by-line rebuild keeps a diff line.
keepsLine(hunks, line) ==
  CASE line.type = "context" -> TRUE
    [] line.type = "added" -> statusOfLine(hunks, line) \in {"accepted", "pending"}
    [] OTHER -> statusOfLine(hunks, line) = "rejected"

RECURSIVE rebuildLines(_, _, _)
rebuildLines(fullDiff, hunks, k) ==
  IF k > Len(fullDiff) THEN <<>>
  ELSE (IF keepsLine(hunks, fullDiff[k]) THEN <<fullDiff[k].content>> ELSE <<>>)
         \o rebuildLines(fullDiff, hunks, k + 1)

applyHunkDecisions(originalContent, currentContent, hunks) ==
  IF \A k \in 1..Len(hunks) : hunks[k].status = "accepted" THEN currentContent
  ELSE IF \A k \in 1..Len(hunks) : hunks[k].status = "rejected" THEN originalContent
  ELSE join(rebuildLines(computeLineDiff(originalContent, currentContent), hunks, 1))

\* ------------------------------------------------------ Reconciliation Store
\* PendingEditsManager.enabled: true from construction; the settings toggle
\* setEnabled is outside the model, so the guards on it always pass.
enabled == TRUE

\* An optional value: <<>> for none, <<x>> for x.
None == <<>>
Some(x) == <<x>>

\* fs.readFile(p) succeeds exactly when the file exists.
fileExists(p) == Len(disk[p]) > 0
fileContent(p) == disk[p][1]

\* originalFileStates is a JavaScript Map: a sequence of entries in insertion
\* order; set keeps the place of a key it has, delete closes the gap.
mapHas(m, p) == \E k \in 1..Len(m) : m[k].filePath = p
mapIndex(m, p) == CHOOSE k \in 1..Len(m) : m[k].filePath = p
mapGet(m, p) == m[mapIndex(m, p)].content
mapSet(m, p, c) ==
  IF mapHas(m, p) THEN [m EXCEPT ![mapIndex(m, p)].content = c]
  ELSE Append(m, [filePath |-> p, content |-> c])
\* Variant: every entry is deleted.
mapDeleteAll(m, p) == <<>>
mapDelete(m, p) == SelectSeq(m, LAMBDA e : e.filePath # p)

\* A for-of loop over the Map that is suspended at an await keeps the number
\* of entries it has passed (idx); deleting an entry it has passed moves it
\* back by one, and clear() makes it start over on what is set afterwards.
iterating(t) == "idx" \in DOMAIN t
tasksAfterDelete(ts, m, p) ==
  IF ~mapHas(m, p) THEN ts
  ELSE [k \in 1..Len(ts) |->
          IF iterating(ts[k]) /\ ts[k].idx >= mapIndex(m, p)
            THEN [ts[k] EXCEPT !.idx = @ - 1] ELSE ts[k]]
tasksAfterClear(ts) ==
  [k \in 1..Len(ts) |-> IF iterating(ts[k]) THEN [ts[k] EXCEPT !.idx = 0] ELSE ts[k]]

removeAt(seq, k) == SubSeq(seq, 1, k - 1) \o SubSeq(seq, k + 1, Len(seq))

\* files.find(f => f.filePath === filePath)
hasFile(files, p) == \E k \in 1..Len(files) : files[k].filePath = p
findFile(files, p) ==
  files[CHOOSE k \in 1..Len(files) :
          files[k].filePath = p /\ \A q \in 1..(k - 1) : files[q].filePath # p]
\* Variant: every file goes.
withoutFileAll(files, p) == <<>>

\* files.filter(f => f.filePath !== filePath)
withoutFile(files, p) == SelectSeq(files, LAMBDA f : f.filePath # p)
\* Variant: any hunk will do.
hasHunkAny(file, hunkId) == Len(file.hunks) > 0

\* file.hunks.find(h => h.id === hunkId)
hasHunk(file, hunkId) == \E k \in 1..Len(file.hunks) : file.hunks[k].id = hunkId
findHunk(file, hunkId) ==
  file.hunks[CHOOSE k \in 1..Len(file.hunks) :
               file.hunks[k].id = hunkId /\ \A q \in 1..(k - 1) : file.hunks[q].id # hunkId]

\* Scheduling.  Serially (section 5 of the design) an operation or an outside
\* change begins only when nothing is in flight; otherwise operations overlap
\* at their awaits, up to env.inflight of them.
canStart == IF env.serial THEN tasks = <<>> ELSE Len(tasks) < env.inflight
canAct == env.serial => tasks = <<>>
\* Calls that name a file or hunk the store does not hold, or a tool call it
\* has no capture for, are made only in the runs that allow them.
mayCall(known) == known \/ env.strays

step(op, at, k, filePath, arg, outcome) ==
  [op |-> op, at |-> at, k |-> k, filePath |-> filePath, arg |-> arg, outcome |-> outcome]

\* ------------------------------------------------------------- environment
\* Something outside the store (the CLI's edit tool, the user) rewrites a file.
ExternalWrite(p, t) ==
  /\ canAct
  /\ nWrites < env.writes
  /\ disk[p] # Some(t)
  /\ disk' = [disk EXCEPT ![p] = Some(t)]
  /\ nWrites' = nWrites + 1
  /\ last' = step("external", "write", 0, p, 0, "ok")
  /\ UNCHANGED <<env, captures, originalFileStates, pendingFiles, pendingEdits, tasks, nOps>>

\* ... or deletes it.
ExternalDelete(p) ==
  /\ canAct
  /\ nWrites < env.writes
  /\ fileExists(p)
  /\ disk' = [disk EXCEPT ![p] = None]
  /\ nWrites' = nWrites + 1
  /\ last' = step("external", "delete", 0, p, 0, "ok")
  /\ UNCHANGED <<env, captures, originalFileStates, pendingFiles, pendingEdits, tasks, nOps>>

\* ------------------------------------------------------ captureBeforeState
\* The call up to `await fs.readFile`.  Tool-call ids are fresh: addToolCall
\* skips an id it has seen, so the ids are handed out in order.
CaptureBeforeStateCall(p) ==
  /\ enabled
  /\ canStart
  /\ nOps < env.ops
  /\ nOps' = nOps + 1
  /\ tasks' = Append(tasks, [op |-> "captureBeforeState", pc |-> "readFile",
                             toolUseId |-> nOps + 1, filePath |-> p])
  /\ last' = step("captureBeforeState", "call", Len(tasks) + 1, p, nOps + 1, "started")
  /\ UNCHANGED <<env, disk, captures, originalFileStates, pendingFiles, pendingEdits, nWrites>>

\* Variant: every capture sets the baseline.
baselineAfterCaptureAlways(m, p, beforeContent) == mapSet(m, p, beforeContent)

\* The baseline a capture leaves: set only for a path that has none.
baselineAfterCapture(m, p, beforeContent) ==
  IF ~mapHas(m, p) THEN mapSet(m, p, beforeContent) ELSE m

\* The read returns (the empty string when it fails) and the capture is stored.
CaptureBeforeStateRead(k) ==
  /\ k \in 1..Len(tasks)
  /\ tasks[k].op = "captureBeforeState"
  /\ LET t == tasks[k]
         beforeContent == IF fileExists(t.filePath) THEN fileContent(t.filePath) ELSE <<>>
     IN /\ originalFileStates' = baselineAfterCapture(originalFileStates, t.filePath, beforeContent)
        /\ captures' = [captures EXCEPT ![t.toolUseId] =
                          Some([filePath |-> t.filePath, beforeContent |-> beforeContent])]
        /\ last' = step("captureBeforeState", "readFile", k, t.filePath, t.toolUseId, "captured")
  /\ tasks' = removeAt(tasks, k)
  /\ UNCHANGED <<env, disk, pendingFiles, pendingEdits, nOps, nWrites>>

\* ------------------------------------- completePendingEdit, refreshPendingFiles
\* The call up to `await fs.readFile(capture.filePath)`; no capture, no effect.
CompletePendingEditCall(id) ==
  /\ enabled
  /\ canStart
  /\ id \in 1..env.ops
  /\ mayCall(Len(captures[id]) > 0)
  /\ IF Len(captures[id]) = 0
       THEN /\ last' = step("completePendingEdit", "call", 0, "", id, "no capture")
            /\ UNCHANGED tasks
       ELSE /\ tasks' = Append(tasks,
                 [op |-> "completePendingEdit", pc |-> "readFile", toolUseId |-> id,
                  capture |-> captures[id][1], idx |-> 0,
                  entry |-> [filePath |-> "", content |-> <<>>],
                  currentContent |-> <<>>, hunks |-> <<>>, list |-> <<>>])
            /\ last' = step("completePendingEdit", "call", Len(tasks) + 1,
                            captures[id][1].filePath, id, "started")
  /\ UNCHANGED <<env, disk, captures, originalFileStates, pendingFiles, pendingEdits,
                 nOps, nWrites>>

\* Variant: the capture stays.
withoutCaptureKeeping(cs, id) == cs

\* captures.delete(toolUseId)
withoutCapture(cs, id) == [cs EXCEPT ![id] = None]

\* The loop of refreshPendingFiles moves on: it takes the next entry of the Map
\* and awaits the read of its file, or, past the last entry, publishes its list
\* and completePendingEdit drops the capture.
RefreshAdvance(k, t, outcome) ==
  IF t.idx < Len(originalFileStates)
    THEN /\ tasks' = [tasks EXCEPT ![k] =
                        [t EXCEPT !.pc = "refreshRead", !.idx = @ + 1,
                                  !.entry = originalFileStates[t.idx + 1],
                                  !.currentContent = <<>>, !.hunks = <<>>]]
         /\ last' = step("completePendingEdit", tasks[k].pc, k, t.capture.filePath,
                         t.toolUseId, outcome)
         /\ UNCHANGED <<pendingFiles, captures>>
    ELSE /\ pendingFiles' = t.list
         /\ captures' = withoutCapture(captures, t.toolUseId)
         /\ tasks' = removeAt(tasks, k)
         /\ last' = step("completePendingEdit", tasks[k].pc, k, t.capture.filePath,
                         t.toolUseId, "published")

\* The read of the edited file returns.
CompletePendingEditRead(k) ==
  /\ k \in 1..Len(tasks)
  /\ tasks[k].op = "completePendingEdit" /\ tasks[k].pc = "readFile"
  /\ LET t == tasks[k]
         p == t.capture.filePath
     IN IF ~fileExists(p) \/ t.capture.beforeContent = fileContent(p)
          THEN /\ captures' = withoutCapture(captures, t.toolUseId)
               /\ tasks' = removeAt(tasks, k)
               /\ last' = step("completePendingEdit", "readFile", k, p, t.toolUseId,
                               IF fileExists(p) THEN "unchanged" ELSE "unreadable")
               /\ UNCHANGED <<pendingFiles, pendingEdits>>
          ELSE /\ pendingEdits' = Append(pendingEdits, [id |-> t.toolUseId, filePath |-> p])
               /\ RefreshAdvance(k, t, "changed")
  /\ UNCHANGED <<env, disk, originalFileStates, nOps, nWrites>>

\* refreshPendingFiles: the read of one tracked file returns.
RefreshRead(k) ==
  /\ k \in 1..Len(tasks)
  /\ tasks[k].op = "completePendingEdit" /\ tasks[k].pc = "refreshRead"
  /\ LET t == tasks[k]
         p == t.entry.filePath
     IN IF ~fileExists(p) THEN RefreshAdvance(k, t, "unreadable")
        ELSE IF t.entry.content = fileContent(p) THEN RefreshAdvance(k, t, "same")
        ELSE /\ tasks' = [tasks EXCEPT ![k] =
                            [t EXCEPT !.pc = "saveDebugData",
                                      !.currentContent = fileContent(p),
                                      !.hunks = computeHunks(t.entry.content, fileContent(p))]]
             /\ last' = step("completePendingEdit", "refreshRead", k, t.capture.filePath,
                             t.toolUseId, "differs")
             /\ UNCHANGED <<pendingFiles, captures>>
  /\ UNCHANGED <<env, disk, originalFileStates, pendingEdits, nOps, nWrites>>

\* Variant: the entry is listed with the content read as its original too.
pendingFileOfContent(entry, currentContent, hunks) ==
  [filePath |-> entry.filePath, originalContent |-> currentContent,
   currentContent |-> currentContent, hunks |-> hunks]

\* The PendingFile pushed for an entry of the Map (vaultPath and timestamp,
\* which nothing reads back, are left out).
pendingFileOf(entry, currentContent, hunks) ==
  [filePath |-> entry.filePath, originalContent |-> entry.content,
   currentContent |-> currentContent, hunks |-> hunks]

\* refreshPendingFiles: saveDebugData returns (its own errors are swallowed) and
\* a file with hunks joins the list.
RefreshSaved(k) ==
  /\ k \in 1..Len(tasks)
  /\ tasks[k].op = "completePendingEdit" /\ tasks[k].pc = "saveDebugData"
  /\ LET t == tasks[k]
         file == pendingFileOf(t.entry, t.currentContent, t.hunks)
     IN IF Len(t.hunks) = 0 THEN RefreshAdvance(k, t, "no hunks")
        ELSE RefreshAdvance(k, [t EXCEPT !.list = Append(@, file)], "listed")
  /\ UNCHANGED <<env, disk, originalFileStates, pendingEdits, nOps, nWrites>>

\* ---------------------------------------------------------- updateHunkStatus
withHunkStatus(files, p, hunkId, status) ==
  [k \in 1..Len(files) |->
     IF files[k].filePath # p THEN files[k]
     ELSE [files[k] EXCEPT !.hunks =
             [q \in 1..Len(files[k].hunks) |->
                IF files[k].hunks[q].id = hunkId
                  THEN [files[k].hunks[q] EXCEPT !.status = status]
                  ELSE files[k].hunks[q]]]]

\* acceptHunk / rejectHunk: the status of one hunk is set, nothing else.
UpdateHunkStatus(p, hunkId, status) ==
  /\ canAct
  /\ mayCall(hasFile(pendingFiles, p) /\ hasHunk(findFile(pendingFiles, p), hunkId))
  /\ pendingFiles' = withHunkStatus(pendingFiles, p, hunkId, status)
  /\ last' = step(IF status = "accepted" THEN "acceptHunk" ELSE "rejectHunk", "call", 0,
                  p, hunkId, "ok")
  /\ UNCHANGED <<env, disk, captures, originalFileStates, pendingEdits, tasks, nOps, nWrites>>

\* ------------------------------------------------------ acceptHunkImmediate
\* Variant: the other hunks keep the status they have.
acceptDecisionsKeepingOthers(file, hunkId) ==
  [k \in 1..Len(file.hunks) |->
     IF file.hunks[k].id = hunkId THEN [file.hunks[k] EXCEPT !.status = "accepted"]
     ELSE file.hunks[k]]

\* The scratch decisions of an accept: this hunk accepted, every other rejected.
acceptDecisions(file, hunkId) ==
  [k \in 1..Len(file.hunks) |->
     [file.hunks[k] EXCEPT !.status = IF file.hunks[k].id = hunkId THEN "accepted"
                                      ELSE "rejected"]]

\* Variant: the baseline is left where it was.
acceptedBaselineStale(file, hunkId) == file.originalContent

\* The baseline an accept computes: the original with the accepted hunk applied.
acceptedBaseline(file, hunkId) ==
  applyHunkDecisions(file.originalContent, file.currentContent, acceptDecisions(file, hunkId))

\* edits.filter(e => e.filePath !== filePath)
withoutEdits(edits, p) == SelectSeq(edits, LAMBDA e : e.filePath # p)

\* The call up to `await fs.readFile`: the baseline is advanced before the read.
AcceptHunkImmediateCall(p, hunkId) ==
  /\ canStart
  /\ mayCall(hasFile(pendingFiles, p) /\ hasHunk(findFile(pendingFiles, p), hunkId))
  /\ IF ~hasFile(pendingFiles, p) \/ ~hasHunk(findFile(pendingFiles, p), hunkId)
       THEN /\ last' = step("acceptHunkImmediate", "call", 0, p, hunkId,
                            IF hasFile(pendingFiles, p) THEN "no hunk" ELSE "no file")
            /\ UNCHANGED <<originalFileStates, tasks>>
       ELSE LET newOriginal == acceptedBaseline(findFile(pendingFiles, p), hunkId)
            IN /\ originalFileStates' = mapSet(originalFileStates, p, newOriginal)
               /\ tasks' = Append(tasks,
                    [op |-> "acceptHunkImmediate", pc |-> "readFile", filePath |-> p,
                     hunkId |-> hunkId, files |-> pendingFiles, newOriginal |-> newOriginal])
               /\ last' = step("acceptHunkImmediate", "call", Len(tasks) + 1, p, hunkId,
                               "started")
  /\ UNCHANGED <<env, disk, captures, pendingFiles, pendingEdits, nOps, nWrites>>

\* The file leaves the store: its baseline, its PendingFile (in the list the
\* operation read when it began) and its legacy edits.
Retire(k, files, p) ==
  /\ originalFileStates' = mapDelete(originalFileStates, p)
  /\ pendingFiles' = withoutFile(files, p)
  /\ pendingEdits' = withoutEdits(pendingEdits, p)
  /\ tasks' = tasksAfterDelete(removeAt(tasks, k), originalFileStates, p)

\* Variant: the file keeps the hunks it had.
withFileUpdatedKeepingHunks(files, p, originalContent, currentContent, hunks) ==
  [q \in 1..Len(files) |->
     IF files[q].filePath # p THEN files[q]
     ELSE [files[q] EXCEPT !.originalContent = originalContent,
                           !.currentContent = currentContent]]

\* files.map(f => f.filePath !== filePath ? f : {...f, <fields>})
withFileUpdated(files, p, originalContent, currentContent, hunks) ==
  [q \in 1..Len(files) |->
     IF files[q].filePath # p THEN files[q]
     ELSE [files[q] EXCEPT !.originalContent = originalContent,
                           !.currentContent = currentContent, !.hunks = hunks]]

\* The read returns: the remaining hunks are recomputed and published, or the
\* file is retired; a failed read is logged and nothing more happens.
AcceptHunkImmediateRead(k) ==
  /\ k \in 1..Len(tasks)
  /\ tasks[k].op = "acceptHunkImmediate"
  /\ LET t == tasks[k]
         p == t.filePath
     IN IF ~fileExists(p)
          THEN /\ tasks' = removeAt(tasks, k)
               /\ last' = step("acceptHunkImmediate", "readFile", k, p, t.hunkId, "failed")
               /\ UNCHANGED <<originalFileStates, pendingFiles, pendingEdits>>
          ELSE LET remainingHunks == computeHunks(t.newOriginal, fileContent(p))
               IN IF Len(remainingHunks) = 0
                    THEN /\ Retire(k, t.files, p)
                         /\ last' = step("acceptHunkImmediate", "readFile", k, p, t.hunkId,
                                         "retired")
                    ELSE /\ pendingFiles' = withFileUpdated(t.files, p, t.newOriginal,
                                                            fileContent(p), remainingHunks)
                         /\ tasks' = removeAt(tasks, k)
                         /\ last' = step("acceptHunkImmediate", "readFile", k, p, t.hunkId,
                                         "republished")
                         /\ UNCHANGED <<originalFileStates, pendingEdits>>
  /\ UNCHANGED <<env, disk, captures, nOps, nWrites>>

\* ------------------------------------------------------ rejectHunkImmediate
\* Variant: every hunk is rejected, not only the named one.
rejectDecisionsAll(file, hunkId) ==
  [k \in 1..Len(file.hunks) |-> [file.hunks[k] EXCEPT !.status = "rejected"]]

\* Variant: no hunk is rejected.
rejectDecisionsNone(file, hunkId) == file.hunks

\* The decisions of a reject: this hunk rejected, the others as they stand.
rejectDecisions(file, hunkId) ==
  [k \in 1..Len(file.hunks) |->
     IF file.hunks[k].id = hunkId THEN [file.hunks[k] EXCEPT !.status = "rejected"]
     ELSE file.hunks[k]]

\* Variant: a reject puts the whole original back.
rejectedContentOriginal(file, hunkId) == file.originalContent

\* The content a reject writes: this hunk undone, the others as they stand.
rejectedContent(file, hunkId) ==
  applyHunkDecisions(file.originalContent, file.currentContent, rejectDecisions(file, hunkId))

\* The call up to the await of the write (host document or fs.writeFile).
RejectHunkImmediateCall(p, hunkId) ==
  /\ canStart
  /\ mayCall(hasFile(pendingFiles, p) /\ hasHunk(findFile(pendingFiles, p), hunkId))
  /\ IF ~hasFile(pendingFiles, p) \/ ~hasHunk(findFile(pendingFiles, p), hunkId)
       THEN /\ last' = step("rejectHunkImmediate", "call", 0, p, hunkId,
                            IF hasFile(pendingFiles, p) THEN "no hunk" ELSE "no file")
            /\ UNCHANGED tasks
       ELSE /\ tasks' = Append(tasks,
                 [op |-> "rejectHunkImmediate", pc |-> "writeFile", filePath |-> p,
                  hunkId |-> hunkId, files |-> pendingFiles,
                  file |-> findFile(pendingFiles, p),
                  newContent |-> rejectedContent(findFile(pendingFiles, p), hunkId)])
            /\ last' = step("rejectHunkImmediate", "call", Len(tasks) + 1, p, hunkId,
                            "started")
  /\ UNCHANGED <<env, disk, captures, originalFileStates, pendingFiles, pendingEdits,
                 nOps, nWrites>>

\* The write returns.  Written: the hunks are recomputed against the unchanged
\* baseline and published, or the file is retired.  Failed: logged, no change.
RejectHunkImmediateWrite(k, ok) ==
  /\ k \in 1..Len(tasks)
  /\ tasks[k].op = "rejectHunkImmediate"
  /\ LET t == tasks[k]
         p == t.filePath
     IN IF ~ok
          THEN /\ tasks' = removeAt(tasks, k)
               /\ last' = step("rejectHunkImmediate", "writeFile", k, p, t.hunkId, "failed")
               /\ UNCHANGED <<disk, originalFileStates, pendingFiles, pendingEdits>>
          ELSE LET remainingHunks == computeHunks(t.file.originalContent, t.newContent)
               IN /\ disk' = [disk EXCEPT ![p] = Some(t.newContent)]
                  /\ IF Len(remainingHunks) = 0
                       THEN /\ Retire(k, t.files, p)
                            /\ last' = step("rejectHunkImmediate", "writeFile", k, p,
                                            t.hunkId, "retired")
                       ELSE /\ pendingFiles' = withFileUpdated(t.files, p,
                                                 t.file.originalContent, t.newContent,
                                                 remainingHunks)
                            /\ tasks' = removeAt(tasks, k)
                            /\ last' = step("rejectHunkImmediate", "writeFile", k, p,
                                            t.hunkId, "republished")
                            /\ UNCHANGED <<originalFileStates, pendingEdits>>
  /\ UNCHANGED <<env, captures, nOps, nWrites>>

\* ------------------------------------------------------ whole-file decisions
\* acceptAllHunksForFile: synchronous; the file keeps its content and is retired.
AcceptAllHunksForFile(p) ==
  /\ canAct
  /\ mayCall(hasFile(pendingFiles, p))
  /\ IF ~hasFile(pendingFiles, p)
       THEN /\ last' = step("acceptAllHunksForFile", "call", 0, p, 0, "no file")
            /\ UNCHANGED <<originalFileStates, pendingFiles, pendingEdits, tasks>>
       ELSE /\ originalFileStates' = mapDelete(originalFileStates, p)
            /\ pendingFiles' = withoutFile(pendingFiles, p)
            /\ pendingEdits' = withoutEdits(pendingEdits, p)
            /\ tasks' = tasksAfterDelete(tasks, originalFileStates, p)
            /\ last' = step("acceptAllHunksForFile", "call", 0, p, 0, "retired")
  /\ UNCHANGED <<env, disk, captures, nOps, nWrites>>

\* rejectAllHunksForFile: the call up to the await of the write.
RejectAllHunksForFileCall(p) ==
  /\ canStart
  /\ mayCall(hasFile(pendingFiles, p))
  /\ IF ~hasFile(pendingFiles, p)
       THEN /\ last' = step("rejectAllHunksForFile", "call", 0, p, 0, "no file")
            /\ UNCHANGED tasks
       ELSE /\ tasks' = Append(tasks,
                 [op |-> "rejectAllHunksForFile", pc |-> "writeFile", filePath |-> p,
                  files |-> pendingFiles,
                  content |-> findFile(pendingFiles, p).originalContent])
            /\ last' = step("rejectAllHunksForFile", "call", Len(tasks) + 1, p, 0, "started")
  /\ UNCHANGED <<env, disk, captures, originalFileStates, pendingFiles, pendingEdits,
                 nOps, nWrites>>

\* Variant: only the first hunk is looked at.
hasPendingFirst(file) == file.hunks[1].status = "pending"

\* file.hunks.some(h => h.status === 'pending')
hasPending(file) == \E k \in 1..Len(file.hunks) : file.hunks[k].status = "pending"

\* applyHunkDecisionsForFile: refused while a hunk is pending; otherwise the
\* final content is computed and the write awaited.
ApplyHunkDecisionsForFileCall(p) ==
  /\ canStart
  /\ mayCall(hasFile(pendingFiles, p))
  /\ IF ~hasFile(pendingFiles, p)
       THEN /\ last' = step("applyHunkDecisionsForFile", "call", 0, p, 0, "no file")
            /\ UNCHANGED tasks
       ELSE LET file == findFile(pendingFiles, p)
            IN IF hasPending(file)
                 THEN /\ last' = step("applyHunkDecisionsForFile", "call", 0, p, 0, "pending")
                      /\ UNCHANGED tasks
                 ELSE /\ tasks' = Append(tasks,
                           [op |-> "applyHunkDecisionsForFile", pc |-> "writeFile",
                            filePath |-> p, files |-> pendingFiles,
                            content |-> applyHunkDecisions(file.originalContent,
                                                           file.currentContent, file.hunks)])
                      /\ last' = step("applyHunkDecisionsForFile", "call", Len(tasks) + 1,
                                      p, 0, "started")
  /\ UNCHANGED <<env, disk, captures, originalFileStates, pendingFiles, pendingEdits,
                 nOps, nWrites>>

\* Variant: the file is retired whether or not the write succeeded.
WholeFileWriteRetiring(k, ok) ==
  /\ k \in 1..Len(tasks)
  /\ tasks[k].op \in {"rejectAllHunksForFile", "applyHunkDecisionsForFile"}
  /\ LET t == tasks[k]
     IN /\ disk' = (IF ok THEN [disk EXCEPT ![t.filePath] = Some(t.content)] ELSE disk)
        /\ Retire(k, t.files, t.filePath)
        /\ last' = step(t.op, "writeFile", k, t.filePath, 0, IF ok THEN "retired" ELSE "failed")
  /\ UNCHANGED <<env, captures, nOps, nWrites>>

\* The write of rejectAllHunksForFile or applyHunkDecisionsForFile returns:
\* written, the file is retired; failed, logged and nothing changes.
WholeFileWrite(k, ok) ==
  /\ k \in 1..Len(tasks)
  /\ tasks[k].op \in {"rejectAllHunksForFile", "applyHunkDecisionsForFile"}
  /\ LET t == tasks[k]
     IN IF ok
          THEN /\ disk' = [disk EXCEPT ![t.filePath] = Some(t.content)]
               /\ Retire(k, t.files, t.filePath)
               /\ last' = step(t.op, "writeFile", k, t.filePath, 0, "retired")
          ELSE /\ tasks' = removeAt(tasks, k)
               /\ last' = step(t.op, "writeFile", k, t.filePath, 0, "failed")
               /\ UNCHANGED <<disk, originalFileStates, pendingFiles, pendingEdits>>
  /\ UNCHANGED <<env, captures, nOps, nWrites>>

\* ----------------------------------------------------- store-wide decisions
\* acceptAllHunks: no await in its body, so it runs in one piece.
AcceptAllHunks ==
  /\ canAct
  /\ originalFileStates' = <<>>
  /\ pendingFiles' = <<>>
  /\ pendingEdits' = <<>>
  /\ tasks' = tasksAfterClear(tasks)
  /\ last' = step("acceptAllHunks", "call", 0, "", 0, "cleared")
  /\ UNCHANGED <<env, disk, captures, nOps, nWrites>>

\* The loop of rejectAllHunks takes the next entry of the Map, if there is one.
rejectAllNext(t) ==
  IF t.idx < Len(originalFileStates)
    THEN [t EXCEPT !.idx = @ + 1, !.entry = originalFileStates[t.idx + 1]]
    ELSE t

RejectAllHunksCall ==
  /\ canStart
  /\ LET t == [op |-> "rejectAllHunks", pc |-> "writeFile", idx |-> 0,
               entry |-> [filePath |-> "", content |-> <<>>]]
     IN IF Len(originalFileStates) > 0
          THEN /\ tasks' = Append(tasks, rejectAllNext(t))
               /\ last' = step("rejectAllHunks", "call", Len(tasks) + 1, "", 0, "writing")
               /\ UNCHANGED <<originalFileStates, pendingFiles, pendingEdits>>
          ELSE /\ originalFileStates' = <<>>
               /\ pendingFiles' = <<>>
               /\ pendingEdits' = <<>>
               /\ tasks' = tasksAfterClear(tasks)
               /\ last' = step("rejectAllHunks", "call", 0, "", 0, "cleared")
  /\ UNCHANGED <<env, disk, captures, nOps, nWrites>>

\* One write of rejectAllHunks returns (a failure is logged and the loop goes on).
RejectAllHunksWrite(k, ok) ==
  /\ k \in 1..Len(tasks)
  /\ tasks[k].op = "rejectAllHunks"
  /\ LET t == tasks[k]
     IN /\ disk' = (IF ok THEN [disk EXCEPT ![t.entry.filePath] = Some(t.entry.content)]
                    ELSE disk)
        /\ IF t.idx < Len(originalFileStates)
             THEN /\ tasks' = [tasks EXCEPT ![k] = rejectAllNext(t)]
                  /\ last' = step("rejectAllHunks", "writeFile", k, t.entry.filePath, 0,
                                  IF ok THEN "written" ELSE "failed")
                  /\ UNCHANGED <<originalFileStates, pendingFiles, pendingEdits>>
             ELSE /\ originalFileStates' = <<>>
                  /\ pendingFiles' = <<>>
                  /\ pendingEdits' = <<>>
                  /\ tasks' = tasksAfterClear(removeAt(tasks, k))
                  /\ last' = step("rejectAllHunks", "writeFile", k, t.entry.filePath, 0,
                                  IF ok THEN "cleared" ELSE "failed and cleared")
  /\ UNCHANGED <<env, captures, nOps, nWrites>>

\* cleanup: everything in memory is dropped, the disk is not touched.
Cleanup ==
  /\ canAct
  /\ captures' = [id \in DOMAIN captures |-> None]
  /\ originalFileStates' = <<>>
  /\ pendingEdits' = <<>>
  /\ pendingFiles' = <<>>
  /\ tasks' = tasksAfterClear(tasks)
  /\ last' = step("cleanup", "call", 0, "", 0, "cleared")
  /\ UNCHANGED <<env, disk, nOps, nWrites>>

\* ------------------------------------------- specification of the diff engine
\* The lines the enumerated texts are made of: empty, blank, and two letters.
LineAlphabet == {<<>>, <<" ">>, <<"a">>, <<"b">>}

\* Every text of 1..n lines over the alphabet (a text always has a line).
TextsOfLines(n) == {join(ls) : ls \in UNION {[1..k -> LineAlphabet] : k \in 1..n}}

DiffTexts == TextsOfLines(MaxLines)

\* ------------------------------------------------------ editor decorations
\* Decoration.none
noDecorations == <<>>

viewIdle == decorations = noDecorations

\* doc.line(n).from and doc.line(n).to for the document with these lines
\* (n from 1): the offsets of the line's first character and of its end.
RECURSIVE lineFrom(_, _)
lineFrom(docLines, n) ==
  IF n <= 1 THEN 0 ELSE lineFrom(docLines, n - 1) + Len(docLines[n - 1]) + 1
lineTo(docLines, n) == lineFrom(docLines, n) + Len(docLines[n])

lineDeco(pos) ==
  [kind |-> "line", pos |-> pos, side |-> 0, id |-> <<>>, position |-> "", lines |-> <<>>]
removedWidget(pos, side, removedLines) ==
  [kind |-> "removed", pos |-> pos, side |-> side, id |-> <<>>, position |-> "",
   lines |-> removedLines]
actionsWidget(pos, side, hunk, position) ==
  [kind |-> "actions", pos |-> pos, side |-> side, id |-> hunk.id, position |-> position,
   lines |-> <<>>]

\* The inner loop over a run of removed lines from position i: removed lines are
\* collected, and a context line too when a removed line follows it; the
\* result is the collected contents and the position the loop stopped at.
RECURSIVE collectRemoved(_, _, _)
collectRemoved(lines, i, removedLines) ==
  IF i > Len(lines) THEN [lines |-> removedLines, i |-> i]
  ELSE IF lines[i].type = "removed"
    THEN collectRemoved(lines, i + 1, Append(removedLines, lines[i].content))
  ELSE IF lines[i].type = "context" /\ i + 1 <= Len(lines) /\ lines[i + 1].type = "removed"
    THEN collectRemoved(lines, i + 1, Append(removedLines, lines[i].content))
  ELSE [lines |-> removedLines, i |-> i]

\* The document line the removed block is shown at: the first hunk line from
\* position i on that has a newLine, or the last line of the document.
targetLineNum(docLines, lines, i) ==
  IF \E j \in i..Len(lines) : lines[j].newLine # undefined
    THEN lines[CHOOSE j \in i..Len(lines) :
                 /\ lines[j].newLine # undefined
                 /\ \A q \in i..(j - 1) : lines[q].newLine = undefined].newLine + 1
    ELSE Len(docLines)

\* Variant: the fallback position of a delete-only hunk is never recorded.
rememberDeleteOnlyNever(d, pos, side) == d

\* if (deleteOnlyButtonPos === null) { deleteOnlyButtonPos = ...; deleteOnlyButtonSide = ... }
rememberDeleteOnly(d, pos, side) ==
  IF d.deleteOnlyButtonPos = None
    THEN [d EXCEPT !.deleteOnlyButtonPos = Some(pos), !.deleteOnlyButtonSide = side]
    ELSE d

\* The loop over the lines of one pending hunk, from position i.
RECURSIVE hunkDecorations(_, _, _, _)
hunkDecorations(docLines, lines, i, d) ==
  IF i > Len(lines) THEN d
  ELSE LET line == lines[i]
       IN IF line.type = "added" /\ line.newLine # undefined
            THEN LET lineNum == line.newLine + 1
                 IN IF lineNum >= 1 /\ lineNum <= Len(docLines)
                      THEN hunkDecorations(docLines, lines, i + 1,
                             [d EXCEPT !.firstAddedLineStart =
                                         IF @ = None THEN Some(lineFrom(docLines, lineNum))
                                         ELSE @,
                                       !.lineDecorations =
                                         Append(@, lineDeco(lineFrom(docLines, lineNum)))])
                      ELSE hunkDecorations(docLines, lines, i + 1, d)
          ELSE IF line.type = "removed"
            THEN LET r == collectRemoved(lines, i, <<>>)
                     target == targetLineNum(docLines, lines, r.i)
                 IN IF target >= 1 /\ target <= Len(docLines)
                      THEN LET widgetPos == IF target > 1 THEN lineTo(docLines, target - 1)
                                            ELSE lineFrom(docLines, target)
                               widgetSide == IF target > 1 THEN 1 ELSE -1
                           IN hunkDecorations(docLines, lines, r.i,
                                rememberDeleteOnly(
                                  [d EXCEPT !.widgetDecorations =
                                     Append(@, removedWidget(widgetPos, widgetSide, r.lines))],
                                  widgetPos, widgetSide + 1))
                    ELSE IF Len(docLines) > 0
                      THEN hunkDecorations(docLines, lines, r.i,
                             rememberDeleteOnly(
                               [d EXCEPT !.widgetDecorations =
                                  Append(@, removedWidget(lineTo(docLines, Len(docLines)), 1,
                                                          r.lines))],
                               lineTo(docLines, Len(docLines)), 2))
                    ELSE hunkDecorations(docLines, lines, r.i, d)
          ELSE hunkDecorations(docLines, lines, i + 1, d)

\* One pending hunk: its line and widget decorations, then its action buttons,
\* above the first added line or, for a delete-only hunk, below the removed block.
decorateHunk(docLines, filePath, hunk, d) ==
  LET h == hunkDecorations(docLines, hunk.lines, 1,
                           [d EXCEPT !.firstAddedLineStart = None,
                                     !.deleteOnlyButtonPos = None,
                                     !.deleteOnlyButtonSide = 2])
      isDeleteOnly == h.firstAddedLineStart = None
      buttonPos == IF isDeleteOnly THEN h.deleteOnlyButtonPos ELSE h.firstAddedLineStart
      buttonSide == IF isDeleteOnly THEN h.deleteOnlyButtonSide ELSE -1
  IN IF buttonPos # None
       THEN [h EXCEPT !.widgetDecorations =
               Append(@, actionsWidget(buttonPos[1], buttonSide, hunk,
                                       IF isDeleteOnly THEN "below" ELSE "above"))]
       ELSE h

RECURSIVE decorateHunks(_, _, _, _, _)
decorateHunks(docLines, filePath, hunks, k, d) ==
  IF k > Len(hunks) THEN d
  ELSE decorateHunks(docLines, filePath, hunks, k + 1,
                     decorateHunk(docLines, filePath, hunks[k], d))

\* Decoration.set(ranges, true): the ranges in the order of their position, a
\* line decoration before the widgets of the same position, widgets by side.
decoBefore(a, b) ==
  \/ a.pos < b.pos
  \/ /\ a.pos = b.pos
     /\ \/ a.kind = "line" /\ b.kind # "line"
        \/ a.kind # "line" /\ b.kind # "line" /\ a.side < b.side

RECURSIVE insertSorted(_, _)
insertSorted(sorted, x) ==
  IF Len(sorted) = 0 THEN <<x>>
  ELSE IF decoBefore(x, sorted[1]) THEN <<x>> \o sorted
  ELSE <<sorted[1]>> \o insertSorted(Tail(sorted), x)

\* The first k ranges, sorted.
RECURSIVE sortDecorations(_, _)
sortDecorations(all, k) ==
  IF k = 0 THEN <<>> ELSE insertSorted(sortDecorations(all, k - 1), all[k])

\* buildDecorations(view, pendingFile) for a view whose document is doc;
\* `none` is the file not being published.
buildDecorations(doc, pendingFile) ==
  IF pendingFile = None \/ Len(pendingFile[1].hunks) = 0 THEN noDecorations
  ELSE LET file == pendingFile[1]
           pendingHunks == SelectSeq(file.hunks, LAMBDA h : h.status = "pending")
       IN IF Len(pendingHunks) = 0 THEN noDecorations
          ELSE LET d == decorateHunks(split(doc), file.filePath, pendingHunks, 1,
                                      [lineDecorations |-> <<>>, widgetDecorations |-> <<>>,
                                       firstAddedLineStart |-> None,
                                       deleteOnlyButtonPos |-> None,
                                       deleteOnlyButtonSide |-> 2])
                   all == d.lineDecorations \o d.widgetDecorations
               IN sortDecorations(all, Len(all))

\* pendingEditsPlugin.buildDecorations for the editor that shows path p with
\* the file's content on disk as its document.
pluginDecorations(files, p) ==
  buildDecorations(fileContent(p), IF hasFile(files, p) THEN Some(findFile(files, p)) ELSE None)

\* --------------------------------------------------- the CLI output stream
\* Edit-tool calls in one run of the chat process.
MaxCalls == 2
\* The tool-use ids, one character each.
callName(n) == <<"1", "2", "3">>[n]
CallIds == {callName(n) : n \in 1..MaxCalls}

\* One JSON line of the CLI's output, as the characters the model keeps: an
\* assistant message with a tool_use block of an edit tool, and a user message
\* with the tool_result block of that call.
toolUseLine(id) == <<"u", id>>
toolResultLine(id) == <<"r", id>>

\* JSON.parse and the message shapes processLine looks at; every other line
\* (a partial or blank one) is skipped.
isToolUse(line) == Len(line) = 2 /\ line[1] = "u" /\ line[2] \in CallIds
isToolResult(line) == Len(line) = 2 /\ line[1] = "r" /\ line[2] \in CallIds

\* The lines as the process writes them, each ended by "\n".
RECURSIVE written(_)
written(msgs) == IF Len(msgs) = 0 THEN <<>> ELSE msgs[1] \o <<NL>> \o written(Tail(msgs))

\* What the CLI can write: for every call its tool_use line and then, once the
\* tool has run, its tool_result line; the calls may overlap.
CliOutputs ==
  {written(<<toolUseLine("1"), toolResultLine("1")>>),
   written(<<toolUseLine("1"), toolResultLine("1"), toolUseLine("2"), toolResultLine("2")>>),
   written(<<toolUseLine("1"), toolUseLine("2"), toolResultLine("1"), toolResultLine("2")>>),
   written(<<toolUseLine("1"), toolUseLine("2"), toolResultLine("2"), toolResultLine("1")>>)}

\* No chat process runs.
streamOff ==
  [wire |-> <<>>, buffer |-> <<>>, segments |-> {}, handlers |-> <<>>,
   capture |-> [id \in {} |-> "none"], complete |-> [id \in {} |-> "none"]]

streamIdle == stream = streamOff

\* segments.find(s => s.type === 'toolCall' && s.id === id)
hasSegment(s, id) == id \in s.segments

\* The lines of one data event, processed in order up to the first await of
\* file I/O: addToolCall awaits captureBeforeState before it pushes the segment,
\* completeToolCall awaits completePendingEdit when it finds the segment and does
\* nothing when it does not.  The lines left wait in the handler.
RECURSIVE processLines(_, _)
processLines(s, lines) ==
  IF Len(lines) = 0 THEN s
  ELSE LET line == lines[1]
           id == line[2]
       IN IF isToolUse(line) /\ ~hasSegment(s, id)
            THEN [s EXCEPT !.capture[id] = "reading",
                           !.handlers = Append(@, [at |-> "captureBeforeState", id |-> id,
                                                   lines |-> Tail(lines)])]
          ELSE IF isToolResult(line) /\ hasSegment(s, id)
            THEN [s EXCEPT !.complete[id] = "reading",
                           !.handlers = Append(@, [at |-> "completePendingEdit", id |-> id,
                                                   lines |-> Tail(lines)])]
          ELSE IF isToolResult(line)
            THEN processLines([s EXCEPT !.complete[id] =
                                 IF @ = "none" THEN "dropped" ELSE @], Tail(lines))
          ELSE processLines(s, Tail(lines))

\* proc.stdout 'data': the chunk joins the buffer, the complete lines are split
\* off and a handler of their own processes them; the rest stays buffered.
DataEvent(n) ==
  /\ n \in 1..Len(stream.wire)
  /\ LET text == stream.buffer \o SubSeq(stream.wire, 1, n)
         lines == split(text)
         s == [stream EXCEPT !.wire = SubSeq(@, n + 1, Len(@)),
                             !.buffer = lines[Len(lines)]]
     IN stream' = processLines(s, SubSeq(lines, 1, Len(lines) - 1))
  /\ UNCHANGED <<diffVars, storeVars, viewVars>>

\* The file I/O a handler awaits returns and the handler goes on with its
\* lines: after captureBeforeState the tool call's segment is pushed.
HandlerResumes(k) ==
  /\ k \in 1..Len(stream.handlers)
  /\ LET h == stream.handlers[k]
         s == IF h.at = "captureBeforeState"
                THEN [stream EXCEPT !.handlers = removeAt(@, k),
                                    !.capture[h.id] = "done",
                                    !.segments = @ \cup {h.id}]
                ELSE [stream EXCEPT !.handlers = removeAt(@, k),
                                    !.complete[h.id] = "done"]
     IN stream' = processLines(s, h.lines)
  /\ UNCHANGED <<diffVars, storeVars, viewVars>>

\* The store stands still in the diff specification, and the diff in the store's.
storeIdle ==
  /\ env = [paths |-> {}, texts |-> {}, initial |-> {}, writes |-> 0, ops |-> 0,
            inflight |-> 0, serial |-> TRUE, strays |-> FALSE]
  /\ disk = <<>>
  /\ captures = <<>>
  /\ originalFileStates = <<>>
  /\ pendingFiles = <<>>
  /\ pendingEdits = <<>>
  /\ tasks = <<>>
  /\ nOps = 0
  /\ nDecisions = 0
  /\ nWrites = 0
  /\ last = step("none", "", 0, "", 0, "")

diffIdle ==
  /\ dOld = <<>>
  /\ dNew = <<>>
  /\ dStage = "off"
  /\ dDiff = <<>>
  /\ dHunks = <<>>

DiffInit ==
  /\ dOld \in DiffTexts
  /\ dNew \in DiffTexts
  /\ dStage = "input"
  /\ dDiff = <<>>
  /\ dHunks = <<>>
  /\ storeIdle /\ streamIdle /\ viewIdle

RunComputeLineDiff ==
  /\ dStage = "input"
  /\ dDiff' = computeLineDiff(dOld, dNew)
  /\ dStage' = "diffed"
  /\ UNCHANGED <<dOld, dNew, dHunks>>
  /\ UNCHANGED <<storeVars, streamVars, viewVars>>

RunComputeHunks ==
  /\ dStage = "diffed"
  /\ dHunks' = computeHunks(dOld, dNew)
  /\ dStage' = "hunked"
  /\ UNCHANGED <<dOld, dNew, dDiff>>
  /\ UNCHANGED <<storeVars, streamVars, viewVars>>

DiffNext == RunComputeLineDiff \/ RunComputeHunks

SpecDiff == DiffInit /\ [][DiffNext]_vars


\* ------------------------------------------- specification of the CLI stream
\* The chat process has been spawned and has written nothing yet.
StreamInit ==
  /\ \E out \in CliOutputs :
       stream = [wire |-> out, buffer |-> <<>>, segments |-> {}, handlers |-> <<>>,
                 capture |-> [id \in CallIds |-> "none"],
                 complete |-> [id \in CallIds |-> "none"]]
  /\ diffIdle
  /\ storeIdle
  /\ viewIdle

\* The output arrives in chunks of any size, and awaited file I/O returns at
\* any time in between.
StreamNext ==
  \/ \E n \in 1..(3 * 2 * MaxCalls) : DataEvent(n)
  \/ \E k \in 1..(2 * MaxCalls) : HandlerResumes(k)

SpecStream == StreamInit /\ [][StreamNext]_vars

\* ------------------------------------------------- specifications of the store
line1 == <<"l", "i", "n", "e", "1">>
line2 == <<"l", "i", "n", "e", "2">>
line3 == <<"l", "i", "n", "e", "3">>
line4 == <<"l", "i", "n", "e", "4">>
LINE2 == <<"L", "I", "N", "E", "2">>

\* The end-to-end scenario: 'line1\nline2\nline3\n' edited to
\* 'line1\nLINE2\nline3\nline4\n'.
ScenarioOriginal == join(<<line1, line2, line3, <<>>>>)
ScenarioEdited == join(<<line1, LINE2, line3, line4, <<>>>>)

\* The texts the file holds in the serial runs: the scenario's two and the
\* original with only 'line4' appended.
StoreTexts ==
  {ScenarioOriginal, ScenarioEdited, join(<<line1, line2, line3, line4, <<>>>>)}

\* The texts of the single-edit runs: every text of up to MaxLines lines that
\* are empty, 'a' or 'b'.
WideTexts == {join(ls) : ls \in UNION {[1..k -> {<<>>, <<"a">>, <<"b">>}] : k \in 1..MaxLines}}

StoreInit(e) ==
  /\ env = e
  /\ disk \in [e.paths -> {None} \cup {Some(t) : t \in e.initial}]
  /\ captures = [id \in 1..e.ops |-> None]
  /\ originalFileStates = <<>>
  /\ pendingFiles = <<>>
  /\ pendingEdits = <<>>
  /\ tasks = <<>>
  /\ nOps = 0
  /\ nDecisions = 0
  /\ nWrites = 0
  /\ last = step("none", "", 0, "", 0, "")
  /\ diffIdle /\ streamIdle /\ viewIdle

HunkIds == {hunkName(n) : n \in 0..MaxHunkId}

StoreNext ==
  /\ UNCHANGED <<diffVars, streamVars, viewVars>>
  /\ UNCHANGED nDecisions
  /\ \/ \E p \in env.paths : \E t \in env.texts : ExternalWrite(p, t)
     \/ \E p \in env.paths : ExternalDelete(p)
     \/ \E p \in env.paths : CaptureBeforeStateCall(p)
     \/ \E k \in 1..Len(tasks) : CaptureBeforeStateRead(k)
     \/ \E id \in 1..env.ops : CompletePendingEditCall(id)
     \/ \E k \in 1..Len(tasks) : CompletePendingEditRead(k)
     \/ \E k \in 1..Len(tasks) : RefreshRead(k)
     \/ \E k \in 1..Len(tasks) : RefreshSaved(k)
     \/ \E p \in env.paths : \E h \in HunkIds : \E st \in {"accepted", "rejected"} :
          UpdateHunkStatus(p, h, st)
     \/ \E p \in env.paths : \E h \in HunkIds : AcceptHunkImmediateCall(p, h)
     \/ \E k \in 1..Len(tasks) : AcceptHunkImmediateRead(k)
     \/ \E p \in env.paths : \E h \in HunkIds : RejectHunkImmediateCall(p, h)
     \/ \E k \in 1..Len(tasks) : \E ok \in BOOLEAN : RejectHunkImmediateWrite(k, ok)
     \/ \E p \in env.paths : AcceptAllHunksForFile(p)
     \/ \E p \in env.paths : RejectAllHunksForFileCall(p)
     \/ \E p \in env.paths : ApplyHunkDecisionsForFileCall(p)
     \/ \E k \in 1..Len(tasks) : \E ok \in BOOLEAN : WholeFileWrite(k, ok)
     \/ AcceptAllHunks
     \/ RejectAllHunksCall
     \/ \E k \in 1..Len(tasks) : \E ok \in BOOLEAN : RejectAllHunksWrite(k, ok)
     \/ Cleanup

\* Operations run one at a time, as section 5 of the design has it.
SerialEnv ==
  [paths |-> {"a.md"}, texts |-> StoreTexts, initial |-> {ScenarioOriginal},
   writes |-> MaxWrites, ops |-> MaxOps, inflight |-> 1, serial |-> TRUE,
   strays |-> FALSE]

Init == StoreInit(SerialEnv)
Next == StoreNext
Spec == Init /\ [][Next]_vars

\* One file, one tool call and one outside change, over every pair of texts.
WideEnv ==
  [paths |-> {"a.md"}, texts |-> WideTexts, initial |-> WideTexts,
   writes |-> 1, ops |-> 1, inflight |-> 1, serial |-> TRUE, strays |-> FALSE]

SpecWide == StoreInit(WideEnv) /\ [][Next]_vars

\* Calls that name what the store does not hold: a file that is not published, a
\* hunk id the file does not list, a tool call that was never captured.
StrayEnv == [SerialEnv EXCEPT !.strays = TRUE]

SpecStray == StoreInit(StrayEnv) /\ [][Next]_vars

\* Decisions that overlap.  The hunk buttons of the editor call
\* acceptHunkImmediate and rejectHunkImmediate from their click handlers, which
\* neither wait for an earlier call nor are switched off while one runs: up to
\* env.inflight decisions are in flight at once.
OverlapPaths == <<"a.md", "b.md">>
OverlapTexts ==
  {join(<<<<"a">>, <<"b">>>>), join(<<<<"b">>, <<"a">>>>), join(<<<<"b">>>>)}
OverlapEnv ==
  [paths |-> {OverlapPaths[k] : k \in 1..Len(OverlapPaths)}, texts |-> OverlapTexts,
   initial |-> OverlapTexts, writes |-> 0, ops |-> Len(OverlapPaths), inflight |-> 2,
   serial |-> FALSE, strays |-> FALSE]

\* The store once the tool calls that edited the two files have completed:
\* captureBeforeState recorded each baseline, the tool wrote each file, and
\* completePendingEdit published each file with the hunks of its two contents
\* and dropped the captures.
OverlapInit ==
  /\ env = OverlapEnv
  /\ \E before, after \in [1..Len(OverlapPaths) -> OverlapTexts] :
       /\ \A k \in 1..Len(OverlapPaths) : before[k] # after[k]
       /\ disk = [p \in OverlapEnv.paths |->
                    Some(after[CHOOSE k \in 1..Len(OverlapPaths) : OverlapPaths[k] = p])]
       /\ originalFileStates =
            [k \in 1..Len(OverlapPaths) |-> [filePath |-> OverlapPaths[k], content |-> before[k]]]
       /\ pendingFiles =
            [k \in 1..Len(OverlapPaths) |->
               pendingFileOf([filePath |-> OverlapPaths[k], content |-> before[k]], after[k],
                             computeHunks(before[k], after[k]))]
  /\ captures = [id \in 1..OverlapEnv.ops |-> None]
  /\ pendingEdits = [k \in 1..Len(OverlapPaths) |-> [id |-> k, filePath |-> OverlapPaths[k]]]
  /\ tasks = <<>>
  /\ nOps = OverlapEnv.ops
  /\ nDecisions = 0
  /\ nWrites = 0
  /\ last = step("none", "", 0, "", 0, "")
  /\ diffIdle /\ streamIdle /\ viewIdle

\* The clicks of a run are counted, so that a run has at most MaxDecisions.
DecisionNext ==
  /\ UNCHANGED <<diffVars, streamVars, viewVars>>
  /\ \/ /\ nDecisions < MaxDecisions
        /\ nDecisions' = nDecisions + 1
        /\ \E p \in env.paths : \E h \in HunkIds : AcceptHunkImmediateCall(p, h)
     \/ /\ nDecisions < MaxDecisions
        /\ nDecisions' = nDecisions + 1
        /\ \E p \in env.paths : \E h \in HunkIds : RejectHunkImmediateCall(p, h)
     \/ /\ UNCHANGED nDecisions
        /\ \E k \in 1..Len(tasks) : AcceptHunkImmediateRead(k)
     \/ /\ UNCHANGED nDecisions
        /\ \E k \in 1..Len(tasks) : \E ok \in BOOLEAN : RejectHunkImmediateWrite(k, ok)

SpecOverlap == OverlapInit /\ [][DecisionNext]_vars

\* Teardown while decisions are in flight: cleanup is synchronous and is called
\* (session end, plugin unload) without waiting for a decision that awaits its
\* file I/O.
TeardownNext ==
  \/ DecisionNext
  \/ /\ UNCHANGED <<diffVars, streamVars, viewVars>>
     /\ UNCHANGED nDecisions
     /\ Cleanup

SpecTeardown == OverlapInit /\ [][TeardownNext]_vars

\* One published file that the user decides hunk by hunk until nothing is
\* left, every write succeeding and nothing else touching the file.  The
\* environment of a run records the two contents the file was published with.
DecideEnv ==
  [paths |-> {"a.md"}, texts |-> WideTexts, initial |-> WideTexts, writes |-> 0, ops |-> 1,
   inflight |-> 1, serial |-> TRUE, strays |-> FALSE]

\* The store once the tool call that edited the file has completed.
DecideInit ==
  /\ \E before, after \in WideTexts :
       /\ computeHunks(before, after) # <<>>
       /\ env = [DecideEnv EXCEPT !.initial = {before}, !.texts = {after}]
       /\ disk = [p \in DecideEnv.paths |-> Some(after)]
       /\ originalFileStates = <<[filePath |-> "a.md", content |-> before]>>
       /\ pendingFiles = <<pendingFileOf([filePath |-> "a.md", content |-> before], after,
                                         computeHunks(before, after))>>
  /\ captures = [id \in 1..DecideEnv.ops |-> None]
  /\ pendingEdits = <<[id |-> 1, filePath |-> "a.md"]>>
  /\ tasks = <<>>
  /\ nOps = DecideEnv.ops
  /\ nDecisions = 0
  /\ nWrites = 0
  /\ last = step("none", "", 0, "", 0, "")
  /\ diffIdle /\ streamIdle /\ viewIdle

\* The decisions are counted as they are made; a diff of two texts of MaxLines
\* lines has at most 2 * MaxLines changed lines, and the count stops one past that.
DecideNext ==
  /\ UNCHANGED <<diffVars, streamVars, viewVars>>
  /\ \/ /\ nDecisions <= 2 * MaxLines
        /\ nDecisions' = nDecisions + 1
        /\ \E p \in env.paths : \E h \in HunkIds : AcceptHunkImmediateCall(p, h)
     \/ /\ nDecisions <= 2 * MaxLines
        /\ nDecisions' = nDecisions + 1
        /\ \E p \in env.paths : \E h \in HunkIds : RejectHunkImmediateCall(p, h)
     \/ /\ UNCHANGED nDecisions
        /\ \E k \in 1..Len(tasks) : AcceptHunkImmediateRead(k)
     \/ /\ UNCHANGED nDecisions
        /\ \E k \in 1..Len(tasks) : RejectHunkImmediateWrite(k, TRUE)

\* When a step of DecideNext can be taken: some I/O is awaited, or a hunk is
\* listed for the user to decide (and the count has not stopped).
decideEnabled ==
  \/ tasks # <<>>
  \/ /\ nDecisions <= 2 * MaxLines
     /\ \E k \in 1..Len(pendingFiles) : \E h \in HunkIds : hasHunk(pendingFiles[k], h)

\* The file I/O of a decision returns, and the user goes on deciding while a
\* hunk is listed: WF_vars(DecideNext), with its ENABLED written out as
\* decideEnabled.
DecideFairness == []<>(~decideEnabled) \/ []<><<DecideNext>>_vars

SpecDecide == DecideInit /\ [][DecideNext]_vars /\ DecideFairness

\* A further tool call edits a published file while the user decides its hunks:
\* the stream handler calls captureBeforeState and completePendingEdit around
\* the tool's write, and the editor's buttons call the decisions, neither
\* waiting for the other.
EditRaceEnv ==
  [paths |-> {"a.md"}, texts |-> OverlapTexts, initial |-> OverlapTexts, writes |-> 1,
   ops |-> 2, inflight |-> 2, serial |-> FALSE, strays |-> FALSE]

\* The store once a first tool call that edited the file has completed.
EditRaceInit ==
  /\ env = EditRaceEnv
  /\ \E before, after \in OverlapTexts :
       /\ before # after
       /\ disk = [p \in EditRaceEnv.paths |-> Some(after)]
       /\ originalFileStates = <<[filePath |-> "a.md", content |-> before]>>
       /\ pendingFiles = <<pendingFileOf([filePath |-> "a.md", content |-> before], after,
                                         computeHunks(before, after))>>
  /\ captures = [id \in 1..EditRaceEnv.ops |-> None]
  /\ pendingEdits = <<[id |-> 1, filePath |-> "a.md"]>>
  /\ tasks = <<>>
  /\ nOps = 1
  /\ nDecisions = 0
  /\ nWrites = 0
  /\ last = step("none", "", 0, "", 0, "")
  /\ diffIdle /\ streamIdle /\ viewIdle

\* The user's decisions come one after the other in these runs.
noDecisionInFlight ==
  \A k \in 1..Len(tasks) :
    tasks[k].op \notin {"acceptHunkImmediate", "rejectHunkImmediate"}

\* A tool call has been captured and its result has not arrived yet.
toolCallOpen ==
  /\ \E id \in 1..env.ops : captures[id] # None
  /\ \A k \in 1..Len(tasks) : tasks[k].op # "completePendingEdit"

\* The tool writes the file between the two notifications of its call; the
\* user's decisions start and resume outside that window, so a decision that
\* meets the edit meets it while completePendingEdit takes it in.
EditRaceNext ==
  /\ UNCHANGED <<diffVars, streamVars, viewVars>>
  /\ \/ /\ UNCHANGED nDecisions
        /\ \E p \in env.paths : CaptureBeforeStateCall(p)
     \/ /\ UNCHANGED nDecisions
        /\ \E k \in 1..Len(tasks) : CaptureBeforeStateRead(k)
     \/ /\ UNCHANGED nDecisions
        /\ toolCallOpen
        /\ \E p \in env.paths : \E t \in env.texts : ExternalWrite(p, t)
     \/ /\ UNCHANGED nDecisions
        /\ \E id \in 1..env.ops : CompletePendingEditCall(id)
     \/ /\ UNCHANGED nDecisions
        /\ \E k \in 1..Len(tasks) : CompletePendingEditRead(k)
     \/ /\ UNCHANGED nDecisions
        /\ \E k \in 1..Len(tasks) : RefreshRead(k)
     \/ /\ UNCHANGED nDecisions
        /\ \E k \in 1..Len(tasks) : RefreshSaved(k)
     \/ /\ nDecisions < MaxDecisions
        /\ noDecisionInFlight
        /\ ~toolCallOpen
        /\ nDecisions' = nDecisions + 1
        /\ \E p \in env.paths : \E h \in HunkIds : AcceptHunkImmediateCall(p, h)
     \/ /\ nDecisions < MaxDecisions
        /\ noDecisionInFlight
        /\ ~toolCallOpen
        /\ nDecisions' = nDecisions + 1
        /\ \E p \in env.paths : \E h \in HunkIds : RejectHunkImmediateCall(p, h)
     \/ /\ UNCHANGED nDecisions
        /\ ~toolCallOpen
        /\ \E k \in 1..Len(tasks) : AcceptHunkImmediateRead(k)
     \/ /\ UNCHANGED nDecisions
        /\ ~toolCallOpen
        /\ \E k \in 1..Len(tasks) : \E ok \in BOOLEAN : RejectHunkImmediateWrite(k, ok)

SpecEditRace == EditRaceInit /\ [][EditRaceNext]_vars

\* One published file with exactly two pending hunks, decided in two steps: a
\* single hunk first, then the whole file.
TwoHunksInit ==
  /\ \E before, after \in WideTexts :
       /\ Len(computeHunks(before, after)) = 2
       /\ env = [DecideEnv EXCEPT !.initial = {before}, !.texts = {after}]
       /\ disk = [p \in DecideEnv.paths |-> Some(after)]
       /\ originalFileStates = <<[filePath |-> "a.md", content |-> before]>>
       /\ pendingFiles = <<pendingFileOf([filePath |-> "a.md", content |-> before], after,
                                         computeHunks(before, after))>>
  /\ captures = [id \in 1..DecideEnv.ops |-> None]
  /\ pendingEdits = <<[id |-> 1, filePath |-> "a.md"]>>
  /\ tasks = <<>>
  /\ nOps = DecideEnv.ops
  /\ nDecisions = 0
  /\ nWrites = 0
  /\ last = step("none", "", 0, "", 0, "")
  /\ diffIdle /\ streamIdle /\ viewIdle

\* The user accepts the first hunk and then rejects the file, or rejects the
\* second hunk and then accepts the file; every write succeeds.
TwoOrdersNext ==
  /\ UNCHANGED <<diffVars, streamVars, viewVars>>
  /\ \/ /\ nDecisions = 0
        /\ nDecisions' = 1
        /\ \E p \in env.paths : AcceptHunkImmediateCall(p, hunkName(0))
     \/ /\ nDecisions = 0
        /\ nDecisions' = 1
        /\ \E p \in env.paths : RejectHunkImmediateCall(p, hunkName(1))
     \/ /\ UNCHANGED nDecisions
        /\ \E k \in 1..Len(tasks) : AcceptHunkImmediateRead(k)
     \/ /\ UNCHANGED nDecisions
        /\ \E k \in 1..Len(tasks) : RejectHunkImmediateWrite(k, TRUE)
     \/ /\ nDecisions = 1
        /\ last.op = "rejectHunkImmediate" /\ last.at = "writeFile"
        /\ nDecisions' = 2
        /\ \E p \in env.paths : AcceptAllHunksForFile(p)
     \/ /\ nDecisions = 1
        /\ last.op = "acceptHunkImmediate" /\ last.at = "readFile"
        /\ nDecisions' = 2
        /\ \E p \in env.paths : RejectAllHunksForFileCall(p)
     \/ /\ UNCHANGED nDecisions
        /\ \E k \in 1..Len(tasks) : WholeFileWrite(k, TRUE)

SpecTwoOrders == TwoHunksInit /\ [][TwoOrdersNext]_vars

\* The user decides a file hunk by hunk with one kind of decision only: once a
\* hunk has been rejected every later decision is a rejection, once one has
\* been accepted every later one is an acceptance; every write succeeds.
OneKindNext ==
  /\ UNCHANGED <<diffVars, streamVars, viewVars>>
  /\ \/ /\ nDecisions <= 2 * MaxLines
        /\ last.op \in {"none", "acceptHunkImmediate"}
        /\ nDecisions' = nDecisions + 1
        /\ \E p \in env.paths : \E h \in HunkIds : AcceptHunkImmediateCall(p, h)
     \/ /\ nDecisions <= 2 * MaxLines
        /\ last.op \in {"none", "rejectHunkImmediate"}
        /\ nDecisions' = nDecisions + 1
        /\ \E p \in env.paths : \E h \in HunkIds : RejectHunkImmediateCall(p, h)
     \/ /\ UNCHANGED nDecisions
        /\ \E k \in 1..Len(tasks) : AcceptHunkImmediateRead(k)
     \/ /\ UNCHANGED nDecisions
        /\ \E k \in 1..Len(tasks) : RejectHunkImmediateWrite(k, TRUE)

SpecOneKind == DecideInit /\ [][OneKindNext]_vars

\* ---------------------------------------------- specification of the editor
\* The file is published and open in an editor whose document is the file's
\* content; the plugin has built its decorations.
ViewInit ==
  /\ \E before, after \in WideTexts :
       /\ computeHunks(before, after) # <<>>
       /\ env = [DecideEnv EXCEPT !.initial = {before}, !.texts = {after}]
       /\ disk = [p \in DecideEnv.paths |-> Some(after)]
       /\ originalFileStates = <<[filePath |-> "a.md", content |-> before]>>
       /\ pendingFiles = <<pendingFileOf([filePath |-> "a.md", content |-> before], after,
                                         computeHunks(before, after))>>
  /\ captures = [id \in 1..DecideEnv.ops |-> None]
  /\ pendingEdits = <<[id |-> 1, filePath |-> "a.md"]>>
  /\ tasks = <<>>
  /\ nOps = DecideEnv.ops
  /\ nDecisions = 0
  /\ nWrites = 0
  /\ last = step("none", "", 0, "", 0, "")
  /\ decorations = pluginDecorations(pendingFiles, "a.md")
  /\ diffIdle
  /\ streamIdle

\* The user marks a hunk (acceptHunk, rejectHunk); the plugin, subscribed to
\* the published list, rebuilds its decorations.
ViewNext ==
  /\ \E p \in env.paths : \E h \in HunkIds : \E st \in {"accepted", "rejected"} :
       /\ UpdateHunkStatus(p, h, st)
       /\ decorations' = pluginDecorations(pendingFiles', p)
  /\ UNCHANGED <<diffVars, streamVars, nDecisions>>

SpecView == ViewInit /\ [][ViewNext]_vars

\* Two published files and the decisions the user takes on them, one at a time:
\* hunk by hunk, file by file, or on everything at once.
TwoFilesEnv == [OverlapEnv EXCEPT !.inflight = 1, !.serial = TRUE]

\* The store once the tool calls that edited the two files have completed (as
\* in OverlapInit), with the calls that follow made one at a time.
TwoFilesInit ==
  /\ env = TwoFilesEnv
  /\ \E before, after \in [1..Len(OverlapPaths) -> OverlapTexts] :
       /\ \A k \in 1..Len(OverlapPaths) : before[k] # after[k]
       /\ disk = [p \in TwoFilesEnv.paths |->
                    Some(after[CHOOSE k \in 1..Len(OverlapPaths) : OverlapPaths[k] = p])]
       /\ originalFileStates =
            [k \in 1..Len(OverlapPaths) |-> [filePath |-> OverlapPaths[k], content |-> before[k]]]
       /\ pendingFiles =
            [k \in 1..Len(OverlapPaths) |->
               pendingFileOf([filePath |-> OverlapPaths[k], content |-> before[k]], after[k],
                             computeHunks(before[k], after[k]))]
  /\ captures = [id \in 1..TwoFilesEnv.ops |-> None]
  /\ pendingEdits = [k \in 1..Len(OverlapPaths) |-> [id |-> k, filePath |-> OverlapPaths[k]]]
  /\ tasks = <<>>
  /\ nOps = TwoFilesEnv.ops
  /\ nDecisions = 0
  /\ nWrites = 0
  /\ last = step("none", "", 0, "", 0, "")
  /\ diffIdle /\ streamIdle /\ viewIdle

ReviewNext ==
  /\ UNCHANGED <<diffVars, streamVars, viewVars>>
  /\ UNCHANGED nDecisions
  /\ \/ \E p \in env.paths : \E h \in HunkIds : \E st \in {"accepted", "rejected"} :
          UpdateHunkStatus(p, h, st)
     \/ \E p \in env.paths : \E h \in HunkIds : AcceptHunkImmediateCall(p, h)
     \/ \E k \in 1..Len(tasks) : AcceptHunkImmediateRead(k)
     \/ \E p \in env.paths : \E h \in HunkIds : RejectHunkImmediateCall(p, h)
     \/ \E k \in 1..Len(tasks) : \E ok \in BOOLEAN : RejectHunkImmediateWrite(k, ok)
     \/ \E p \in env.paths : AcceptAllHunksForFile(p)
     \/ \E p \in env.paths : RejectAllHunksForFileCall(p)
     \/ \E p \in env.paths : ApplyHunkDecisionsForFileCall(p)
     \/ \E k \in 1..Len(tasks) : \E ok \in BOOLEAN : WholeFileWrite(k, ok)
     \/ AcceptAllHunks
     \/ RejectAllHunksCall
     \/ \E k \in 1..Len(tasks) : \E ok \in BOOLEAN : RejectAllHunksWrite(k, ok)
     \/ Cleanup

SpecTwoFiles == TwoFilesInit /\ [][ReviewNext]_vars

\* ---------------------------------------------------- claims on the diff engine
\* The contents of the diff lines whose type is in `types`, in order.
RECURSIVE contentsOf(_, _)
contentsOf(diff, types) ==
  IF Len(diff) = 0 THEN <<>>
  ELSE (IF diff[1].type \in types THEN <<diff[1].content>> ELSE <<>>)
         \o contentsOf(Tail(diff), types)

\* The positions of the diff at which a line structurally equal to `line` stands.
positionsIn(diff, line) == {k \in 1..Len(diff) : sameLine(diff[k], line)}

\* The hunks (by index) that hold the diff line.
hunksHolding(hunks, line) == {h \in 1..Len(hunks) : hunkHasLine(hunks[h], line)}

\* C1: the context and added lines of computeLineDiff(old, new), joined by
\* newlines, are new exactly; the context and removed lines are old exactly.
C1_Reconstruction ==
  dStage # "input" =>
    /\ join(contentsOf(dDiff, {"context", "added"})) = dNew
    /\ join(contentsOf(dDiff, {"context", "removed"})) = dOld

C1_Witness ==
  /\ dStage = "diffed"
  /\ \E k \in 1..Len(dDiff) : dDiff[k].type = "added"
  /\ \E k \in 1..Len(dDiff) : dDiff[k].type = "removed"
  /\ \E k \in 1..Len(dDiff) : dDiff[k].type = "context"
  /\ dNew[Len(dNew)] = NL

\* C2: every added or removed line of the diff is in exactly one hunk of
\* computeHunks, and the hunks come in ascending order of their lines'
\* positions in the diff (inside a hunk, and from one hunk to the next).
C2_HunkCoverage ==
  dStage = "hunked" =>
    /\ \A k \in 1..Len(dDiff) :
         dDiff[k].type # "context" => Cardinality(hunksHolding(dHunks, dDiff[k])) = 1
    /\ \A h \in 1..Len(dHunks) : \A a, b \in 1..Len(dHunks[h].lines) :
         a < b => \A pa \in positionsIn(dDiff, dHunks[h].lines[a]) :
                    \A pb \in positionsIn(dDiff, dHunks[h].lines[b]) : pa < pb
    /\ \A g, h \in 1..Len(dHunks) :
         g < h => \A a \in 1..Len(dHunks[g].lines) : \A b \in 1..Len(dHunks[h].lines) :
           \A pa \in positionsIn(dDiff, dHunks[g].lines[a]) :
             \A pb \in positionsIn(dDiff, dHunks[h].lines[b]) :
               /\ pa <= pb
               /\ (dHunks[g].lines[a].type # "context" \/ dHunks[h].lines[b].type # "context")
                    => pa < pb
    /\ \A h \in 1..Len(dHunks) : \A a \in 1..Len(dHunks[h].lines) :
         positionsIn(dDiff, dHunks[h].lines[a]) # {}

C2_Witness ==
  /\ dStage = "hunked"
  /\ Len(dHunks) >= 2
  /\ \E h \in 1..Len(dHunks) : Len(changedLines(dHunks[h].lines)) >= 2

\* C7: for equal texts computeLineDiff has only context lines and computeHunks
\* returns no hunk.
C7_RoundTripIdentity ==
  dOld = dNew =>
    /\ dStage # "input" => /\ Len(dDiff) = Len(split(dOld))
                           /\ \A k \in 1..Len(dDiff) : dDiff[k].type = "context"
    /\ dStage = "hunked" => dHunks = <<>>

C7_Witness ==
  /\ dOld = dNew
  /\ dStage = "hunked"
  /\ Len(dDiff) = MaxLines
  /\ \E k \in 1..Len(dDiff) : ~isBlank(dDiff[k].content)

\* ------------------------------------------------------- claims on the store
\* The contents of the diff lines at the positions in `kept`, in order.
RECURSIVE contentsAt(_, _, _)
contentsAt(diff, kept, k) ==
  IF k > Len(diff) THEN <<>>
  ELSE (IF k \in kept THEN <<diff[k].content>> ELSE <<>>) \o contentsAt(diff, kept, k + 1)

fullDiffOf(file) == computeLineDiff(file.originalContent, file.currentContent)

\* The original with exactly hunk h applied: every context line, the added
\* lines of h, and the removed lines of every other hunk.
originalWithApplied(file, h) ==
  LET d == fullDiffOf(file)
  IN join(contentsAt(d, {k \in 1..Len(d) :
                           \/ d[k].type = "context"
                           \/ d[k].type = "added" /\ hunkHasLine(h, d[k])
                           \/ d[k].type = "removed" /\ ~hunkHasLine(h, d[k])}, 1))

\* The current content with exactly hunk h undone: every context line, the
\* removed lines of h, and the added lines of every other hunk.
currentWithUndone(file, h) ==
  LET d == fullDiffOf(file)
  IN join(contentsAt(d, {k \in 1..Len(d) :
                           \/ d[k].type = "context"
                           \/ d[k].type = "added" /\ ~hunkHasLine(h, d[k])
                           \/ d[k].type = "removed" /\ hunkHasLine(h, d[k])}, 1))

\* The lines of a list of hunks, and how many of them have a type and content.
RECURSIVE allLines(_)
allLines(hunks) == IF Len(hunks) = 0 THEN <<>> ELSE hunks[1].lines \o allLines(Tail(hunks))
countOf(lines, type, content) ==
  Cardinality({k \in 1..Len(lines) : lines[k].type = type /\ lines[k].content = content})

\* The hunks published for a path, none when the path is not in the list.
publishedHunks(files, p) == IF hasFile(files, p) THEN findFile(files, p).hunks ELSE <<>>

\* The step just taken is the given await point of the given operation.
stepIs(s, op, at) == s.op = op /\ s.at = at

\* C3: acceptHunkImmediate(f, h) on an existing hunk writes no file, and sets
\* the baseline of f to the original with exactly h applied (context lines kept,
\* h's added lines kept and removed lines dropped, every other hunk's added
\* lines dropped and removed lines kept); when its read returns, still nothing
\* is written, and f is either published against that baseline or retired.
C3_AcceptAdvancesBaseline ==
  [][/\ (stepIs(last', "acceptHunkImmediate", "call")
           /\ hasFile(pendingFiles, last'.filePath)
           /\ hasHunk(findFile(pendingFiles, last'.filePath), last'.arg))
        => LET p == last'.filePath
               file == findFile(pendingFiles, p)
           IN /\ disk' = disk
              /\ mapHas(originalFileStates', p)
              /\ mapGet(originalFileStates', p)
                   = originalWithApplied(file, findHunk(file, last'.arg))
     /\ stepIs(last', "acceptHunkImmediate", "readFile")
        => LET t == tasks[last'.k]
               p == t.filePath
               file == findFile(t.files, p)
               expected == originalWithApplied(file, findHunk(file, t.hunkId))
           IN /\ disk' = disk
              /\ mapHas(originalFileStates', p) => mapGet(originalFileStates', p) = expected
              /\ hasFile(pendingFiles', p)
                   => /\ mapHas(originalFileStates', p)
                      /\ findFile(pendingFiles', p).originalContent = expected
    ]_vars

C3_Witness ==
  /\ stepIs(last, "acceptHunkImmediate", "readFile")
  /\ last.outcome = "republished"
  /\ hasFile(pendingFiles, last.filePath)
  /\ LET file == findFile(pendingFiles, last.filePath)
     IN /\ file.originalContent # file.currentContent
        /\ mapGet(originalFileStates, last.filePath) = file.originalContent
        /\ \E k \in 1..Len(fullDiffOf(file)) : fullDiffOf(file)[k].type = "removed"

\* C4: after acceptHunkImmediate(f, h) with the file on disk as it was
\* published, the recomputed hunks do not bring the accepted change back: no
\* added line of h (same content, same line number of the new file) is an added
\* line of a recomputed hunk, and no removed line of h is removed again: for
\* every content the recomputed hunks remove at most as many lines of it as the
\* hunks other than h removed (an equal line of another hunk is another line).
C4_AcceptIdempotence ==
  [][(/\ stepIs(last', "acceptHunkImmediate", "readFile")
      /\ fileExists(tasks[last'.k].filePath)
      /\ fileContent(tasks[last'.k].filePath)
           = findFile(tasks[last'.k].files, tasks[last'.k].filePath).currentContent)
     => LET t == tasks[last'.k]
            file == findFile(t.files, t.filePath)
            h == findHunk(file, t.hunkId)
            before == allLines(file.hunks)
            after == allLines(publishedHunks(pendingFiles', t.filePath))
        IN /\ \A a \in 1..Len(h.lines) : \A b \in 1..Len(after) :
                h.lines[a].type = "added" /\ after[b].type = "added"
                  => ~(after[b].content = h.lines[a].content
                        /\ after[b].newLine = h.lines[a].newLine)
           /\ \A a \in 1..Len(before) :
                before[a].type = "removed"
                  => countOf(after, "removed", before[a].content)
                       <= countOf(before, "removed", before[a].content)
                            - countOf(h.lines, "removed", before[a].content)
    ]_vars

C4_Witness ==
  /\ stepIs(last, "acceptHunkImmediate", "readFile")
  /\ last.outcome = "republished"
  /\ fileExists(last.filePath)
  /\ hasFile(pendingFiles, last.filePath)
  /\ LET file == findFile(pendingFiles, last.filePath)
     IN /\ fileContent(last.filePath) = file.currentContent
        /\ \E k \in 1..Len(allLines(file.hunks)) : allLines(file.hunks)[k].type = "removed"
        /\ \E k \in 1..Len(allLines(file.hunks)) : allLines(file.hunks)[k].type = "added"

\* C5: when rejectHunkImmediate(f, h) writes (every other hunk pending, the
\* file on disk as published), the file gets the original on the lines of h
\* (its removed lines back, its added lines gone) and the prior current content
\* elsewhere, and the baseline of f is not altered: f stays published against
\* the same baseline, or, with no difference left, is retired.
C5_RejectPreservesBaseline ==
  [][(/\ stepIs(last', "rejectHunkImmediate", "writeFile")
      /\ disk' # disk \/ last'.outcome \in {"republished", "retired"}
      /\ LET t == tasks[last'.k]
         IN /\ disk[t.filePath] = Some(t.file.currentContent)
            /\ \A k \in 1..Len(t.file.hunks) :
                 t.file.hunks[k].id # t.hunkId => t.file.hunks[k].status = "pending")
     => LET t == tasks[last'.k]
            p == t.filePath
        IN /\ disk'[p] = Some(currentWithUndone(t.file, findHunk(t.file, t.hunkId)))
           /\ mapHas(originalFileStates', p)
                => mapGet(originalFileStates', p) = mapGet(originalFileStates, p)
           /\ IF hasFile(pendingFiles', p)
                THEN /\ findFile(pendingFiles', p).originalContent = t.file.originalContent
                     /\ mapHas(originalFileStates', p)
                     /\ mapGet(originalFileStates', p) = t.file.originalContent
                ELSE disk'[p] = Some(t.file.originalContent)
    ]_vars

C5_Witness ==
  /\ stepIs(last, "rejectHunkImmediate", "writeFile")
  /\ last.outcome = "republished"
  /\ hasFile(pendingFiles, last.filePath)
  /\ LET file == findFile(pendingFiles, last.filePath)
     IN /\ disk[last.filePath] = Some(file.currentContent)
        /\ mapGet(originalFileStates, last.filePath) = file.originalContent
        /\ \A k \in 1..Len(file.hunks) : file.hunks[k].status = "pending"

\* C6: applyHunkDecisionsForFile on a file with a pending hunk writes nothing,
\* starts no write, and changes neither the published list nor the baselines:
\* the hunks already decided are not applied.
C6_ApplyRequiresFullDecision ==
  [][(/\ last'.op = "applyHunkDecisionsForFile"
      /\ last'.at = "call"
      /\ hasFile(pendingFiles, last'.filePath)
      /\ \E k \in 1..Len(findFile(pendingFiles, last'.filePath).hunks) :
           findFile(pendingFiles, last'.filePath).hunks[k].status = "pending")
     => /\ disk' = disk
        /\ pendingFiles' = pendingFiles
        /\ originalFileStates' = originalFileStates
        /\ tasks' = tasks
    ]_vars

C6_Witness ==
  /\ stepIs(last, "applyHunkDecisionsForFile", "call")
  /\ last.outcome = "pending"
  /\ hasFile(pendingFiles, last.filePath)
  /\ \E k \in 1..Len(findFile(pendingFiles, last.filePath).hunks) :
       findFile(pendingFiles, last.filePath).hunks[k].status = "rejected"
  /\ disk[last.filePath] = Some(findFile(pendingFiles, last.filePath).currentContent)

\* The changed lines of a hunk as pairs of type and content.
changesOf(hunk) ==
  [k \in 1..Len(changedLines(hunk.lines)) |->
     <<changedLines(hunk.lines)[k].type, changedLines(hunk.lines)[k].content>>]

\* C8: with original 'line1\nline2\nline3\n' edited to
\* 'line1\nLINE2\nline3\nline4\n' the file is published with exactly two
\* hunks, the first holding removed 'line2' and added 'LINE2' with preview
\* '-line2 +LINE2', the second only added 'line4'; and when acceptHunkImmediate
\* on the first hunk completes, the file is published with exactly one hunk,
\* pending, whose only changed line is the added 'line4'.
C8_EndToEnd ==
  [][/\ \A k \in 1..Len(pendingFiles') :
          (/\ pendingFiles'[k].originalContent = ScenarioOriginal
           /\ pendingFiles'[k].currentContent = ScenarioEdited)
          => LET hunks == pendingFiles'[k].hunks
             IN /\ Len(hunks) = 2
                /\ changesOf(hunks[1]) = <<<<"removed", line2>>, <<"added", LINE2>>>>
                /\ hunks[1].preview = <<"-">> \o line2 \o <<" ", "+">> \o LINE2
                /\ changesOf(hunks[2]) = <<<<"added", line4>>>>
     /\ (/\ stepIs(last', "acceptHunkImmediate", "readFile")
          /\ LET t == tasks[last'.k]
                 file == findFile(t.files, t.filePath)
             IN /\ file.originalContent = ScenarioOriginal
                /\ file.currentContent = ScenarioEdited
                /\ t.hunkId = file.hunks[1].id
                /\ disk[t.filePath] = Some(ScenarioEdited))
        => LET p == tasks[last'.k].filePath
           IN /\ hasFile(pendingFiles', p)
              /\ Len(findFile(pendingFiles', p).hunks) = 1
              /\ findFile(pendingFiles', p).hunks[1].status = "pending"
              /\ changesOf(findFile(pendingFiles', p).hunks[1]) = <<<<"added", line4>>>>
    ]_vars

C8_Witness ==
  /\ stepIs(last, "acceptHunkImmediate", "readFile")
  /\ last.arg = hunkName(0)
  /\ disk[last.filePath] = Some(ScenarioEdited)
  /\ hasFile(pendingFiles, last.filePath)
  /\ findFile(pendingFiles, last.filePath).originalContent
       = join(<<line1, LINE2, line3, <<>>>>)
  /\ findFile(pendingFiles, last.filePath).currentContent = ScenarioEdited

\* C9: when the read of captureBeforeState returns, the capture holds the
\* file's content (the empty text when the file cannot be read) as
\* beforeContent; a path without a baseline gets that content as its baseline,
\* and a path with one keeps it.  Neither a capture nor an outside change of
\* the file alters a baseline that exists.
C9_CaptureKeepsFirstBaseline ==
  [][/\ stepIs(last', "captureBeforeState", "readFile")
        => LET t == tasks[last'.k]
               p == t.filePath
               before == IF fileExists(p) THEN fileContent(p) ELSE <<>>
           IN /\ captures'[t.toolUseId] = Some([filePath |-> p, beforeContent |-> before])
              /\ IF mapHas(originalFileStates, p)
                   THEN originalFileStates' = originalFileStates
                   ELSE originalFileStates'
                          = Append(originalFileStates, [filePath |-> p, content |-> before])
     /\ last'.op \in {"captureBeforeState", "external"}
        => \A k \in 1..Len(originalFileStates) :
             /\ mapHas(originalFileStates', originalFileStates[k].filePath)
             /\ mapGet(originalFileStates', originalFileStates[k].filePath)
                  = originalFileStates[k].content
    ]_vars

C9_Witness ==
  /\ stepIs(last, "captureBeforeState", "readFile")
  /\ last.arg = 2
  /\ Len(captures[2]) > 0
  /\ nWrites > 0
  /\ mapHas(originalFileStates, last.filePath)
  /\ captures[2][1].beforeContent # mapGet(originalFileStates, last.filePath)

\* The step that ends a completePendingEdit call.
completes(l, ts, ts2) == l.op = "completePendingEdit" /\ l.k > 0 /\ Len(ts2) < Len(ts)

\* The published entry of path p is the tracked baseline against the content.
publishedAgainstBaseline(files, m, p, content) ==
  /\ hasFile(files, p)
  /\ mapHas(m, p)
  /\ LET entry == findFile(files, p)
     IN /\ entry.originalContent = mapGet(m, p)
        /\ entry.currentContent = content
        /\ entry.hunks = computeHunks(mapGet(m, p), content)
        /\ \A k \in 1..Len(entry.hunks) : entry.hunks[k].status = "pending"

\* C10 as stated: completePendingEdit for a captured edit leaves the
\* published list and the baselines alone when the file's content equals the
\* capture's beforeContent, and otherwise publishes the path with the tracked
\* baseline, the content read and computeHunks of the two, all pending; the
\* capture is discarded either way.
C10_AsStated ==
  [][completes(last', tasks, tasks')
     => LET t == tasks[last'.k]
            p == t.capture.filePath
        IN /\ captures'[t.toolUseId] = None
           /\ fileExists(p)
                => IF fileContent(p) = t.capture.beforeContent
                     THEN /\ pendingFiles' = pendingFiles
                          /\ originalFileStates' = originalFileStates
                     ELSE publishedAgainstBaseline(pendingFiles', originalFileStates', p,
                                                   fileContent(p))
    ]_vars

\* C10, amended: as stated, except that in the second case the path is
\* published exactly when it has a tracked baseline that differs from the
\* content read; a path whose baseline is gone, or whose content is back at the
\* baseline, has no entry.
C10_CompletePublishes ==
  [][completes(last', tasks, tasks')
     => LET t == tasks[last'.k]
            p == t.capture.filePath
        IN /\ captures'[t.toolUseId] = None
           /\ fileExists(p)
                => IF fileContent(p) = t.capture.beforeContent
                     THEN /\ pendingFiles' = pendingFiles
                          /\ originalFileStates' = originalFileStates
                     ELSE /\ originalFileStates' = originalFileStates
                          /\ IF /\ mapHas(originalFileStates, p)
                                /\ mapGet(originalFileStates, p) # fileContent(p)
                               THEN publishedAgainstBaseline(pendingFiles',
                                      originalFileStates', p, fileContent(p))
                               ELSE ~hasFile(pendingFiles', p)
    ]_vars

C10_Witness ==
  /\ stepIs(last, "completePendingEdit", "saveDebugData")
  /\ last.outcome = "published"
  /\ last.arg = 2
  /\ Len(pendingEdits) = 2
  /\ hasFile(pendingFiles, last.filePath)
  /\ findFile(pendingFiles, last.filePath).originalContent = ScenarioOriginal
  /\ findFile(pendingFiles, last.filePath).currentContent
       = join(<<line1, line2, line3, line4, <<>>>>)
  /\ captures[2] = None

\* A hunk list without its statuses.
withoutStatus(hunks) == [k \in 1..Len(hunks) |-> [hunks[k] EXCEPT !.status = "pending"]]

\* Every published file has a hunk, and its hunks are those of its two contents.
publishedConsistent(files) ==
  \A k \in 1..Len(files) :
    /\ Len(files[k].hunks) >= 1
    /\ withoutStatus(files[k].hunks)
         = computeHunks(files[k].originalContent, files[k].currentContent)

\* C11: whenever no operation is in flight, every published PendingFile has at
\* least one hunk and its hunks, statuses aside, are computeHunks of its
\* originalContent and currentContent; and an accept or a reject whose
\* recomputed hunk list is empty takes the file out of the published list and
\* drops its baseline.
C11_PublishedHunksDerived ==
  [][/\ tasks' = <<>> => publishedConsistent(pendingFiles')
     /\ (/\ stepIs(last', "acceptHunkImmediate", "readFile")
          /\ fileExists(tasks[last'.k].filePath)
          /\ computeHunks(tasks[last'.k].newOriginal,
                           fileContent(tasks[last'.k].filePath)) = <<>>)
        => /\ ~hasFile(pendingFiles', tasks[last'.k].filePath)
           /\ ~mapHas(originalFileStates', tasks[last'.k].filePath)
     /\ (/\ stepIs(last', "rejectHunkImmediate", "writeFile")
          /\ last'.outcome # "failed"
          /\ computeHunks(tasks[last'.k].file.originalContent,
                           tasks[last'.k].newContent) = <<>>)
        => /\ ~hasFile(pendingFiles', tasks[last'.k].filePath)
           /\ ~mapHas(originalFileStates', tasks[last'.k].filePath)
    ]_vars

C11_Witness ==
  /\ stepIs(last, "rejectHunkImmediate", "writeFile")
  /\ last.outcome = "retired"
  /\ tasks = <<>>
  /\ pendingFiles = <<>>
  /\ originalFileStates = <<>>
  /\ fileExists(last.filePath)
  /\ Len(split(fileContent(last.filePath))) = 3

\* C12: the baseline value of a path that stays tracked changes only at the
\* call of acceptHunkImmediate: rejectHunkImmediate, completePendingEdit and
\* captureBeforeState on a tracked path, like every other step, leave it as it is.
C12_BaselineAdvancesOnlyOnAccept ==
  [][\A k \in 1..Len(originalFileStates) :
       LET p == originalFileStates[k].filePath
       IN (mapHas(originalFileStates', p)
            /\ mapGet(originalFileStates', p) # originalFileStates[k].content)
          => stepIs(last', "acceptHunkImmediate", "call")
    ]_vars

C12_Witness ==
  /\ stepIs(last, "captureBeforeState", "readFile")
  /\ hasFile(pendingFiles, last.filePath)
  /\ fileExists(last.filePath)
  /\ mapHas(originalFileStates, last.filePath)
  /\ mapGet(originalFileStates, last.filePath) # fileContent(last.filePath)
  /\ mapGet(originalFileStates, last.filePath)
       = findFile(pendingFiles, last.filePath).originalContent

\* --------------------------------------------------- claims on overlapping calls
\* The decisions in flight, by their position in `tasks`.
decisionsInFlight ==
  {k \in 1..Len(tasks) : tasks[k].op \in {"acceptHunkImmediate", "rejectHunkImmediate"}}

\* C13: no two accept/reject decisions for the same file are in flight at once:
\* a second decision for a file cannot begin while an earlier one for that file
\* is still awaiting its file I/O.
C13_OneDecisionPerFile ==
  \A j, k \in decisionsInFlight : j # k => tasks[j].filePath # tasks[k].filePath

\* What the store holds for a path: its baseline and its published entry.
storedFor(states, files, p) ==
  [tracked |-> mapHas(states, p),
   baseline |-> IF mapHas(states, p) THEN mapGet(states, p) ELSE <<>>,
   published |-> IF hasFile(files, p) THEN <<findFile(files, p)>> ELSE <<>>]

\* C14: decisions on two different files may overlap without losing either:
\* when a decision on one file finishes, what the store holds for every other
\* file (its baseline and its published entry, with the hunks recomputed by a
\* decision that finished meanwhile, or its retirement) is as it was.
C14_OverlapKeepsBoth ==
  [][(stepIs(last', "acceptHunkImmediate", "readFile")
        \/ stepIs(last', "rejectHunkImmediate", "writeFile"))
       => \A q \in env.paths \ {last'.filePath} :
            storedFor(originalFileStates', pendingFiles', q)
              = storedFor(originalFileStates, pendingFiles, q)
    ]_vars
\* ------------------------------------------------------- claims on failed I/O
\* The operations that await one write of the file they were called for.
writingOps == {"rejectHunkImmediate", "rejectAllHunksForFile", "applyHunkDecisionsForFile"}

\* C15: when the write of rejectHunkImmediate, rejectAllHunksForFile or
\* applyHunkDecisionsForFile fails, the baselines, the published list, the
\* legacy edits and the disk are as they were before the call (neither the call
\* up to the write nor the failed write changes them), the call returns with
\* nothing left in flight, and the file is still published, so that the same
\* call can be made again.
C15_FailedWriteChangesNothing ==
  [][/\ (last'.op \in writingOps /\ last'.at = "call")
        => UNCHANGED <<originalFileStates, pendingFiles, pendingEdits, disk>>
     /\ (last'.op \in writingOps /\ last'.at = "writeFile" /\ last'.outcome = "failed")
        => /\ UNCHANGED <<originalFileStates, pendingFiles, pendingEdits, disk>>
           /\ tasks[last'.k].files = pendingFiles'
           /\ tasks' = <<>>
           /\ hasFile(pendingFiles', last'.filePath)
    ]_vars

C15_Witness ==
  /\ stepIs(last, "applyHunkDecisionsForFile", "writeFile")
  /\ last.outcome = "failed"
  /\ tasks = <<>>
  /\ hasFile(pendingFiles, last.filePath)
  /\ ~hasPending(findFile(pendingFiles, last.filePath))
  /\ \E k \in 1..Len(findFile(pendingFiles, last.filePath).hunks) :
       findFile(pendingFiles, last.filePath).hunks[k].status = "rejected"
  /\ mapHas(originalFileStates, last.filePath)
\* C16: when the read of acceptHunkImmediate fails, the baselines and the
\* published list are as they were before the call.  Run serially, nothing
\* touches the disk between the call and the return of its read, so the read
\* fails exactly when the file is missing at the call: the call then leaves the
\* baselines and the list alone, and so does the failed read.
C16_FailedReadChangesNothing ==
  [][/\ (stepIs(last', "acceptHunkImmediate", "call") /\ last'.outcome = "started"
           /\ ~fileExists(last'.filePath))
        => UNCHANGED <<originalFileStates, pendingFiles>>
     /\ (stepIs(last', "acceptHunkImmediate", "readFile") /\ last'.outcome = "failed")
        => UNCHANGED <<originalFileStates, pendingFiles>>
    ]_vars
\* C17: when a write of rejectAllHunks fails, what the store holds for that
\* file (its baseline and its published entry) is as it was, and the file is
\* still tracked, so that the reject can be made again.
C17_FailedRestoreKeepsFile ==
  [][(stepIs(last', "rejectAllHunks", "writeFile")
        /\ last'.outcome \in {"failed", "failed and cleared"})
       => /\ mapHas(originalFileStates', last'.filePath)
          /\ storedFor(originalFileStates', pendingFiles', last'.filePath)
               = storedFor(originalFileStates, pendingFiles, last'.filePath)
    ]_vars
\* C18: when the file cannot be read at completePendingEdit, the capture of the
\* tool call is discarded and nothing else changes (the other captures, the
\* baselines, the published list, the legacy edits, the disk); the call
\* returns with nothing left in flight.  The call up to the read changes none
\* of these either.
C18_UnreadableDiscardsCapture ==
  [][/\ (stepIs(last', "completePendingEdit", "call") /\ last'.outcome = "started")
        => UNCHANGED <<captures, originalFileStates, pendingFiles, pendingEdits, disk>>
     /\ (stepIs(last', "completePendingEdit", "readFile") /\ last'.outcome = "unreadable")
        => /\ Len(captures[last'.arg]) > 0
           /\ captures' = [captures EXCEPT ![last'.arg] = None]
           /\ UNCHANGED <<originalFileStates, pendingFiles, pendingEdits, disk>>
           /\ tasks' = <<>>
    ]_vars

C18_Witness ==
  /\ stepIs(last, "completePendingEdit", "readFile")
  /\ last.outcome = "unreadable"
  /\ ~fileExists(last.filePath)
  /\ captures[last.arg] = None
  /\ mapHas(originalFileStates, last.filePath)
  /\ tasks = <<>>
\* ------------------------------------------------------ claims on stray calls
\* The operations that take a file path, and those that also take a hunk id.
fileOps ==
  {"acceptHunkImmediate", "rejectHunkImmediate", "acceptAllHunksForFile",
   "rejectAllHunksForFile", "applyHunkDecisionsForFile"}
hunkOps == {"acceptHunkImmediate", "rejectHunkImmediate"}

\* C19: acceptHunkImmediate, rejectHunkImmediate, acceptAllHunksForFile,
\* rejectAllHunksForFile and applyHunkDecisionsForFile, called with a path that
\* is not published or (the first two) a hunk id the file does not list, return
\* at once: no state of the store changes, nothing is written, nothing is left
\* in flight.
C19_UnknownTargetIsNoOp ==
  [][(/\ last'.op \in fileOps
      /\ last'.at = "call"
      /\ \/ ~hasFile(pendingFiles, last'.filePath)
         \/ /\ last'.op \in hunkOps
            /\ \A k \in 1..Len(findFile(pendingFiles, last'.filePath).hunks) :
                 findFile(pendingFiles, last'.filePath).hunks[k].id # last'.arg)
       => UNCHANGED <<env, disk, captures, originalFileStates, pendingFiles, pendingEdits,
                      tasks, nOps, nWrites>>
    ]_vars

C19_Witness ==
  /\ stepIs(last, "rejectHunkImmediate", "call")
  /\ last.outcome = "no hunk"
  /\ tasks = <<>>
  /\ hasFile(pendingFiles, last.filePath)
  /\ Len(findFile(pendingFiles, last.filePath).hunks) = 2
  /\ last.arg = hunkName(2)
\* ------------------------------------------------ claims on applying decisions
\* The content a fully decided file comes to: the walk of the full diff of its
\* two contents that keeps every context line, an added line exactly when a
\* hunk holding it is accepted, and a removed line exactly when a hunk holding
\* it is rejected.
hunkWith(file, line, status) ==
  \E h \in 1..Len(file.hunks) :
    file.hunks[h].status = status /\ hunkHasLine(file.hunks[h], line)
decidedContent(file) ==
  LET d == fullDiffOf(file)
  IN join(contentsAt(d, {k \in 1..Len(d) :
                           \/ d[k].type = "context"
                           \/ d[k].type = "added" /\ hunkWith(file, d[k], "accepted")
                           \/ d[k].type = "removed" /\ hunkWith(file, d[k], "rejected")}, 1))

\* C20: applyHunkDecisionsForFile on a published file whose hunks are all
\* accepted or rejected computes the content of that walk and awaits its write;
\* when the write succeeds the file holds that content, and the file has left
\* the store (no published entry, no baseline, no legacy edit).
C20_ApplyWritesDecidedContent ==
  [][/\ (stepIs(last', "applyHunkDecisionsForFile", "call")
           /\ hasFile(pendingFiles, last'.filePath)
           /\ ~hasPending(findFile(pendingFiles, last'.filePath)))
        => /\ last'.outcome = "started"
           /\ tasks'[last'.k].content = decidedContent(findFile(pendingFiles, last'.filePath))
           /\ UNCHANGED <<disk, originalFileStates, pendingFiles>>
     /\ (stepIs(last', "applyHunkDecisionsForFile", "writeFile") /\ last'.outcome = "retired")
        => /\ ~hasPending(findFile(pendingFiles, last'.filePath))
           /\ disk'[last'.filePath]
                = Some(decidedContent(findFile(pendingFiles, last'.filePath)))
           /\ ~hasFile(pendingFiles', last'.filePath)
           /\ ~mapHas(originalFileStates', last'.filePath)
           /\ withoutEdits(pendingEdits', last'.filePath) = pendingEdits'
    ]_vars

C20_Witness ==
  /\ stepIs(last, "applyHunkDecisionsForFile", "call")
  /\ last.outcome = "started"
  /\ Len(tasks) = 1
  /\ hasFile(pendingFiles, last.filePath)
  /\ LET file == findFile(pendingFiles, last.filePath)
     IN /\ \E h \in 1..Len(file.hunks) : file.hunks[h].status = "accepted"
        /\ \E h \in 1..Len(file.hunks) : file.hunks[h].status = "rejected"
        /\ tasks[1].content = decidedContent(file)
        /\ tasks[1].content # file.originalContent
        /\ tasks[1].content # file.currentContent
\* -------------------------------------------------- claims on whole-file calls
\* Every path but p has its baseline, its published entry and its file as before.
othersUntouched(p) ==
  \A q \in env.paths \ {p} :
    /\ storedFor(originalFileStates', pendingFiles', q)
         = storedFor(originalFileStates, pendingFiles, q)
    /\ disk'[q] = disk[q]

\* C21: rejectAllHunksForFile(f) on a published file awaits one write and
\* changes nothing before it; when the write succeeds f holds the published
\* originalContent, which is the baseline tracked for f (hunks accepted
\* immediately included), f has no published entry and no baseline any more,
\* and every other file's baseline, published entry and disk content are as
\* they were.
C21_RejectFileRestoresBaseline ==
  [][/\ (stepIs(last', "rejectAllHunksForFile", "call") /\ hasFile(pendingFiles, last'.filePath))
        => /\ last'.outcome = "started"
           /\ UNCHANGED <<disk, originalFileStates, pendingFiles>>
     /\ (stepIs(last', "rejectAllHunksForFile", "writeFile") /\ last'.outcome = "retired")
        => LET p == last'.filePath
               file == findFile(pendingFiles, p)
           IN /\ disk'[p] = Some(file.originalContent)
              /\ mapHas(originalFileStates, p)
              /\ mapGet(originalFileStates, p) = file.originalContent
              /\ ~hasFile(pendingFiles', p)
              /\ ~mapHas(originalFileStates', p)
              /\ othersUntouched(p)
    ]_vars

\* A rejectAllHunksForFile that wrote a baseline no tool call started from (an
\* accept had advanced it), with the other file still published and tracked.
C21_Witness ==
  /\ stepIs(last, "rejectAllHunksForFile", "writeFile")
  /\ last.outcome = "retired"
  /\ fileContent(last.filePath) \notin OverlapTexts
  /\ Len(pendingFiles) = 1
  /\ Len(originalFileStates) = 1
  /\ pendingFiles[1].filePath # last.filePath
  /\ originalFileStates[1].filePath = pendingFiles[1].filePath
\* C22: rejectAllHunks writes originalContent back to exactly the files that
\* are published when it is called, and to no other path: every write it makes
\* goes to a path with a published entry (the list is the one of the call until
\* the final clear) and carries that entry's originalContent.
C22_RejectAllWritesPublishedOnly ==
  [][(stepIs(last', "rejectAllHunks", "writeFile")
        /\ last'.outcome \in {"written", "cleared"})
       => /\ hasFile(pendingFiles, last'.filePath)
          /\ disk'[last'.filePath]
               = Some(findFile(pendingFiles, last'.filePath).originalContent)
    ]_vars
\* C23: acceptAllHunksForFile(f) and acceptAllHunks() write nothing to disk and
\* leave nothing in flight; acceptAllHunksForFile removes the published entry
\* and the baseline of f and leaves every other file's baseline, published
\* entry and disk content as they were; acceptAllHunks leaves no published file
\* and no baseline.
C23_AcceptAllWritesNothing ==
  [][/\ (stepIs(last', "acceptAllHunksForFile", "call") /\ hasFile(pendingFiles, last'.filePath))
        => /\ disk' = disk
           /\ tasks' = tasks
           /\ ~hasFile(pendingFiles', last'.filePath)
           /\ ~mapHas(originalFileStates', last'.filePath)
           /\ othersUntouched(last'.filePath)
     /\ stepIs(last', "acceptAllHunks", "call")
        => /\ disk' = disk
           /\ tasks' = tasks
           /\ pendingFiles' = <<>>
           /\ originalFileStates' = <<>>
    ]_vars

C23_Witness ==
  /\ stepIs(last, "acceptAllHunksForFile", "call")
  /\ last.outcome = "retired"
  /\ Len(pendingFiles) = 1
  /\ pendingFiles[1].filePath # last.filePath
  /\ \E h \in 1..Len(pendingFiles[1].hunks) : pendingFiles[1].hunks[h].status = "accepted"
  /\ originalFileStates
       = <<[filePath |-> pendingFiles[1].filePath, content |-> pendingFiles[1].originalContent]>>
  /\ fileContent(last.filePath) \in OverlapTexts
\* ------------------------------------------------------- claims on teardown
\* C24: after cleanup the store holds no capture, no baseline and no published
\* file, and it stays so until the next captureBeforeState, also when a hunk
\* decision was awaiting its file I/O when cleanup ran: the return of that I/O
\* right after the cleanup leaves the store empty.
C24_CleanupStaysEmpty ==
  [][/\ stepIs(last', "cleanup", "call")
        => /\ disk' = disk
           /\ pendingFiles' = <<>>
           /\ originalFileStates' = <<>>
           /\ \A id \in DOMAIN captures' : captures'[id] = None
     /\ (stepIs(last, "cleanup", "call") /\ last'.op \in hunkOps
           /\ last'.at \in {"readFile", "writeFile"})
        => /\ pendingFiles' = <<>>
           /\ originalFileStates' = <<>>
           /\ \A id \in DOMAIN captures' : captures'[id] = None
    ]_vars
\* ------------------------------------------------ more claims on the diff engine
\* C25: the hunks of one computeHunks call do not overlap: no line of the
\* diff, a context line included, is in more than one hunk.
C25_HunksDisjoint ==
  dStage = "hunked" =>
    \A k \in 1..Len(dDiff) : Cardinality(hunksHolding(dHunks, dDiff[k])) <= 1
\* C25, as the code has it: a changed line is in exactly one hunk; a context
\* line is in at most two, and in two only when it is blank, the two hunks are
\* consecutive, it is the last line of the first, which holds an added line,
\* and the first line of the second, whose next line is removed (the split
\* before a removed line keeps the blank line as leading context).
C25_OnlyBlankSplitLineShared ==
  dStage = "hunked" =>
    \A k \in 1..Len(dDiff) :
      LET in == hunksHolding(dHunks, dDiff[k])
      IN /\ dDiff[k].type # "context" => Cardinality(in) = 1
         /\ Cardinality(in) <= 2
         /\ Cardinality(in) = 2
              => /\ dDiff[k].type = "context"
                 /\ isBlank(dDiff[k].content)
                 /\ \E g \in in :
                      /\ in = {g, g + 1}
                      /\ sameLine(dHunks[g].lines[Len(dHunks[g].lines)], dDiff[k])
                      /\ \E a \in 1..Len(dHunks[g].lines) : dHunks[g].lines[a].type = "added"
                      /\ sameLine(dHunks[g + 1].lines[1], dDiff[k])
                      /\ Len(dHunks[g + 1].lines) >= 2
                      /\ dHunks[g + 1].lines[2].type = "removed"

C25_Witness ==
  /\ dStage = "hunked"
  /\ \E k \in 1..Len(dDiff) : Cardinality(hunksHolding(dHunks, dDiff[k])) = 2
  /\ Len(dDiff) >= 4
\* ----------------------------------------------- claims on the amount of change
\* The number of added and removed lines in the diff of two contents.
changeCount(oldContent, newContent) ==
  LET d == computeLineDiff(oldContent, newContent)
  IN Cardinality({k \in 1..Len(d) : d[k].type # "context"})
\* The number of added and removed lines of a hunk.
hunkChangeCount(h) == Cardinality({k \in 1..Len(h.lines) : h.lines[k].type # "context"})

\* The added and removed lines of the hunks of a file that are marked rejected,
\* the hunk named hunkId left out.
RECURSIVE rejectedChangeCount(_, _, _)
rejectedChangeCount(hunks, hunkId, k) ==
  IF k > Len(hunks) THEN 0
  ELSE (IF hunks[k].id # hunkId /\ hunks[k].status = "rejected"
          THEN hunkChangeCount(hunks[k]) ELSE 0)
         + rejectedChangeCount(hunks, hunkId, k + 1)

publishedBefore == CHOOSE t \in env.initial : TRUE
publishedAfter == CHOOSE t \in env.texts : TRUE

\* C27: from a published file, with no other change to the file, a sequence of
\* successful acceptHunkImmediate/rejectHunkImmediate decisions on listed hunks,
\* in any order, has at most as many decisions as the diff the file was
\* published with has added and removed lines, and it ends with the file
\* removed from the store (no published entry, no baseline).
C27_DecisionsTerminate ==
  /\ [](nDecisions <= changeCount(publishedBefore, publishedAfter))
  /\ <>[](tasks = <<>> /\ pendingFiles = <<>> /\ originalFileStates = <<>>)

C27_Witness ==
  /\ nDecisions = 2
  /\ nDecisions = changeCount(publishedBefore, publishedAfter)
  /\ tasks = <<>>
  /\ pendingFiles = <<>>
  /\ originalFileStates = <<>>
  /\ last.outcome = "retired"
\* --------------------------------------------- claims on edits racing decisions
\* C28: an edit that completePendingEdit takes in while a hunk decision is in
\* flight is not lost: once nothing is in flight and no capture is outstanding,
\* every tracked path whose file differs from its baseline is published with
\* the hunks of the baseline and the content on disk.
C28_EditNotLost ==
  (tasks = <<>> /\ \A id \in DOMAIN captures : captures[id] = None)
    => \A k \in 1..Len(originalFileStates) :
         LET p == originalFileStates[k].filePath
             baseline == originalFileStates[k].content
         IN (fileExists(p) /\ fileContent(p) # baseline)
              => /\ hasFile(pendingFiles, p)
                 /\ withoutStatus(findFile(pendingFiles, p).hunks)
                      = computeHunks(baseline, fileContent(p))
\* C29: whenever no operation is in flight, after any sequence of
\* captureBeforeState, completePendingEdit and hunk-level decisions (those
\* whose file I/O failed included), every published file's path has a tracked
\* baseline and its originalContent equals that baseline.
C29_PublishedOriginalIsBaseline ==
  tasks = <<>>
    => \A k \in 1..Len(pendingFiles) :
         /\ mapHas(originalFileStates, pendingFiles[k].filePath)
         /\ mapGet(originalFileStates, pendingFiles[k].filePath)
              = pendingFiles[k].originalContent
\* The file as it was published before the two decisions.
publishedFile ==
  pendingFileOf([filePath |-> "a.md", content |-> publishedBefore], publishedAfter,
                computeHunks(publishedBefore, publishedAfter))

\* C30: for a file with exactly two pending hunks h0 and h1, accepting h0 and
\* then rejecting the file, and rejecting h1 and then accepting the file, both
\* retire the file and leave on disk the original with only h0's change applied.
C30_TwoOrdersAgree ==
  (nDecisions = 2 /\ tasks = <<>>)
    => /\ pendingFiles = <<>>
       /\ originalFileStates = <<>>
       /\ fileExists("a.md")
       /\ fileContent("a.md") = originalWithApplied(publishedFile, publishedFile.hunks[1])

\* The file was retired by rejectAllHunksForFile after the first hunk was
\* accepted, and what is on disk is neither the original nor the edited text.
C30_Witness ==
  /\ nDecisions = 2
  /\ stepIs(last, "rejectAllHunksForFile", "writeFile")
  /\ last.outcome = "retired"
  /\ pendingFiles = <<>>
  /\ fileContent("a.md") \notin {publishedBefore, publishedAfter}
\* C31: when every decision made on a file is a successful rejectHunkImmediate,
\* the file on disk equals the baseline captured before the first external edit
\* at the moment the file is retired; when every decision is an
\* acceptHunkImmediate, the file is never written and is retired with its
\* content on disk unchanged.
C31_OneKindOfDecision ==
  /\ (last.op = "rejectHunkImmediate" /\ tasks = <<>> /\ pendingFiles = <<>>)
       => fileExists("a.md") /\ fileContent("a.md") = publishedBefore
  /\ last.op = "acceptHunkImmediate"
       => fileExists("a.md") /\ fileContent("a.md") = publishedAfter

\* A file of two hunks was retired by two rejections, one hunk each, and the
\* baseline is back on disk.
C31_Witness ==
  /\ last.op = "rejectHunkImmediate"
  /\ tasks = <<>>
  /\ pendingFiles = <<>>
  /\ nDecisions = 2
  /\ Len(computeHunks(publishedBefore, publishedAfter)) = 2
  /\ fileContent("a.md") = publishedBefore
\* ------------------------------------------- claims on the order of diff lines
\* C32: in the sequence computeLineDiff returns, a removed line never comes
\* immediately after an added line: in every run of consecutive changed lines
\* the removed lines all precede the added lines.
C32_RemovedBeforeAdded ==
  dStage # "input" =>
    \A k \in 1..(Len(dDiff) - 1) :
      dDiff[k].type = "added" => dDiff[k + 1].type # "removed"
\* A diff in which two removed lines are directly followed by an added line.
C32_Witness ==
  /\ dStage = "diffed"
  /\ \E k \in 1..(Len(dDiff) - 2) :
       /\ dDiff[k].type = "removed"
       /\ dDiff[k + 1].type = "removed"
       /\ dDiff[k + 2].type = "added"
\* ------------------------------------------------ claims on the hunk grouper
\* The diff line at position k is reached while the open hunk holds an added
\* line: an added line precedes it with only blank context lines in between.
reachedAfterAdd(k) ==
  \E a \in 1..(k - 1) :
    /\ dDiff[a].type = "added"
    /\ \A m \in (a + 1)..(k - 1) :
         dDiff[m].type = "context" /\ isBlank(dDiff[m].content)

\* C33: a removed line reached while the open hunk already holds an added line
\* starts a new hunk, the open one being emitted first; the new hunk is led by
\* the last context line when that line is blank and has no leading context
\* otherwise.  Hence no emitted hunk has a removed line after an added line.
C33_SplitBeforeRemoved ==
  dStage = "hunked" =>
    /\ \A k \in 1..Len(dDiff) :
         (dDiff[k].type = "removed" /\ reachedAfterAdd(k))
           => \E h \in 2..Len(dHunks) :
                LET lines == dHunks[h].lines
                    led == dDiff[k - 1].type = "context" /\ isBlank(dDiff[k - 1].content)
                IN /\ hunkHasLine(dHunks[h - 1], dDiff[k - 1])
                   /\ IF led
                        THEN /\ Len(lines) >= 2
                             /\ sameLine(lines[1], dDiff[k - 1])
                             /\ sameLine(lines[2], dDiff[k])
                        ELSE sameLine(lines[1], dDiff[k])
    /\ \A h \in 1..Len(dHunks) :
         \A a, b \in 1..Len(dHunks[h].lines) :
           (a < b /\ dHunks[h].lines[a].type = "added")
             => dHunks[h].lines[b].type # "removed"

\* A removed line was reached after an added line and a blank context line, and
\* two hunks were emitted.
C33_Witness ==
  /\ dStage = "hunked"
  /\ \E k \in 1..Len(dDiff) : dDiff[k].type = "removed" /\ reachedAfterAdd(k)
  /\ Len(dHunks) = 2
\* Only blank context lines lie between the positions a and k of the diff.
onlyBlanksBetween(a, k) ==
  \A m \in (a + 1)..(k - 1) : dDiff[m].type = "context" /\ isBlank(dDiff[m].content)

\* The hunk that holds the changed line at position a of the diff.
hunkOfChange(a) == CHOOSE h \in 1..Len(dHunks) : hunkHasLine(dHunks[h], dDiff[a])

\* C34: a blank context line never ends a hunk: reached while a hunk is open it
\* is appended and the hunk stays open, so a change that follows a change after
\* only blank context lines is in the same hunk, unless it is a removed line and
\* the hunk already holds an added line; old 'a\n\nb' against new 'a\n\nc' is
\* exactly one hunk.
C34_BlankContextAbsorbed ==
  /\ dStage = "hunked" =>
       \A a, k \in 1..Len(dDiff) :
         (/\ a < k
          /\ dDiff[a].type # "context"
          /\ onlyBlanksBetween(a, k)
          /\ dDiff[k].type = "context" => isBlank(dDiff[k].content))
           => \/ hunkHasLine(dHunks[hunkOfChange(a)], dDiff[k])
              \/ /\ dDiff[k].type = "removed"
                 /\ \E q \in 1..Len(dHunks[hunkOfChange(a)].lines) :
                      dHunks[hunkOfChange(a)].lines[q].type = "added"
  /\ Len(computeHunks(<<"a", NL, NL, "b">>, <<"a", NL, NL, "c">>)) = 1

\* Two changed lines with a blank context line between them, in one hunk.
C34_Witness ==
  /\ dStage = "hunked"
  /\ Len(dHunks) = 1
  /\ \E k \in 2..(Len(dDiff) - 1) :
       /\ dDiff[k - 1].type # "context"
       /\ dDiff[k].type = "context"
       /\ dDiff[k + 1].type # "context"
\* The position in a hunk's lines of its first changed line.
firstChange(lines) == CHOOSE q \in 1..Len(lines) :
                        /\ lines[q].type # "context"
                        /\ \A r \in 1..(q - 1) : lines[r].type = "context"

\* The position in the diff of a line of a hunk.
diffIndex(line) == CHOOSE k \in 1..Len(dDiff) : sameLine(dDiff[k], line)

\* C35: a non-blank context line reached while a hunk is open becomes that
\* hunk's last line and the hunk is emitted.  So a hunk holds at most one
\* non-blank context line after its first changed line, and it begins with at
\* most one context line: the context line just before its first change.
C35_NonBlankContextCloses ==
  dStage = "hunked" =>
    /\ \A a, k \in 1..Len(dDiff) :
         (/\ a < k
          /\ dDiff[a].type # "context"
          /\ onlyBlanksBetween(a, k)
          /\ dDiff[k].type = "context"
          /\ ~isBlank(dDiff[k].content))
           => LET lines == dHunks[hunkOfChange(a)].lines
              IN sameLine(lines[Len(lines)], dDiff[k])
    /\ \A h \in 1..Len(dHunks) :
         LET lines == dHunks[h].lines
             c == firstChange(lines)
         IN /\ Cardinality({q \in (c + 1)..Len(lines) :
                              lines[q].type = "context" /\ ~isBlank(lines[q].content)}) <= 1
            /\ c <= 2
            /\ c = 2 => diffIndex(lines[1]) + 1 = diffIndex(lines[2])

\* A hunk led by one context line and closed by a non-blank context line.
C35_Witness ==
  /\ dStage = "hunked"
  /\ \E h \in 1..Len(dHunks) :
       LET lines == dHunks[h].lines
       IN /\ Len(lines) = 3
          /\ lines[1].type = "context"
          /\ lines[2].type # "context"
          /\ lines[3].type = "context"
          /\ ~isBlank(lines[3].content)
\* ------------------------------------------------- claims on the backtrack
\* C36: in the backtrack, when the current old and new lines differ and the
\* scores lcs[i][j-1] and lcs[i-1][j] are equal, the new-side move is taken: the
\* new line is marked added before any old line is marked removed.  For old 'a'
\* against new 'b', 'b' is consumed as added first and 'a' as removed second,
\* so the diff reads removed 'a', added 'b'.
C36_TiePrefersAdded ==
  dStage # "input" =>
    LET oldLines == split(dOld)
        newLines == split(dNew)
        lcs == lcsTable(oldLines, newLines)
    IN /\ \A i \in 1..Len(oldLines) : \A j \in 1..Len(newLines) :
            (oldLines[i] # newLines[j] /\ lcs[i, j - 1] = lcs[i - 1, j])
              => LET d == backtrack(oldLines, newLines, lcs, i, j)
                 IN d[Len(d)] = addedLine(newLines, j)
       /\ (dOld = <<"a">> /\ dNew = <<"b">>)
            => dDiff = <<removedLine(<<<<"a">>>>, 1), addedLine(<<<<"b">>>>, 1)>>

\* The diff of 'a' against 'b' has been computed.
C36_Witness ==
  /\ dStage = "diffed"
  /\ dOld = <<"a">>
  /\ dNew = <<"b">>
  /\ Len(dDiff) = 2
\* C38: computeLineDiff of two empty contents returns the empty sequence.
C38_EmptyAgainstEmpty ==
  (dStage # "input" /\ dOld = <<>> /\ dNew = <<>>) => dDiff = <<>>
\* ------------------------------------------------ claims on hunk positions
\* The old-file and new-file line numbers (from 0, as oldLine and newLine count)
\* at which the diff line at position k stands: the old lines, and the new
\* lines, that come before it.
oldLineAt(k) == Cardinality({m \in 1..(k - 1) : dDiff[m].type \in {"context", "removed"}})
newLineAt(k) == Cardinality({m \in 1..(k - 1) : dDiff[m].type \in {"context", "added"}})

\* C39: the startLineOld and startLineNew of every hunk computeHunks returns
\* are the old-file and new-file line numbers at which the hunk begins, also
\* when its first line is an added or a removed line without leading context.
C39_StartLines ==
  dStage = "hunked" =>
    \A h \in 1..Len(dHunks) :
      LET k == diffIndex(dHunks[h].lines[1])
      IN /\ dHunks[h].startLineOld = oldLineAt(k)
         /\ dHunks[h].startLineNew = newLineAt(k)
\* ---------------------------------------------------- claims on the CLI stream
\* C37: for every edit-tool call, captureBeforeState has completed before
\* completePendingEdit is invoked, however the output is cut into data events:
\* the lines are processed strictly in the order they arrive, so the tool_result
\* line of a call is processed only when its tool_use line has been processed
\* to the end, and the two notifications bracket the call.
C37_CaptureBeforeComplete ==
  \A id \in DOMAIN stream.complete :
    /\ stream.complete[id] \in {"reading", "done"} => stream.capture[id] = "done"
    /\ stream.complete[id] # "dropped"
\* ------------------------------------------------ claims on the decorations
\* The action widgets built for a hunk.
actionWidgetsOf(hunk) ==
  {q \in 1..Len(decorations) :
     decorations[q].kind = "actions" /\ decorations[q].id = hunk.id}

\* The widget stands above the hunk's first added line, or, when the hunk adds
\* nothing, below the widget that shows its first block of removed lines.
placedForHunk(w, hunk, docLines) ==
  LET lines == hunk.lines
      added == {a \in 1..Len(lines) : lines[a].type = "added"}
  IN IF added # {}
       THEN LET first == CHOOSE a \in added : \A b \in added : a <= b
            IN /\ decorations[w].position = "above"
               /\ decorations[w].pos = lineFrom(docLines, lines[first].newLine + 1)
               /\ decorations[w].side < 0
       ELSE /\ decorations[w].position = "below"
            /\ \E r \in 1..(w - 1) :
                 /\ decorations[r].kind = "removed"
                 /\ decorations[r].pos = decorations[w].pos
                 /\ decorations[r].side < decorations[w].side
                 /\ decorations[r].lines[1] = changedLines(lines)[1].content

\* C40: with a document equal to the file's currentContent, buildDecorations
\* emits exactly one accept/reject widget for each pending hunk and none for an
\* accepted or rejected hunk; the widget is above the first added line when the
\* hunk has one and below the hunk's removed lines otherwise; and building the
\* decorations changes no hunk's status.
C40_OneActionWidgetPerPendingHunk ==
  /\ [](\A k \in 1..Len(pendingFiles) :
          LET file == pendingFiles[k]
          IN (fileExists(file.filePath) /\ fileContent(file.filePath) = file.currentContent)
               => \A h \in 1..Len(file.hunks) :
                    LET ws == actionWidgetsOf(file.hunks[h])
                    IN IF file.hunks[h].status = "pending"
                         THEN /\ Cardinality(ws) = 1
                              /\ \A w \in ws :
                                   placedForHunk(w, file.hunks[h], split(file.currentContent))
                         ELSE ws = {})
  /\ [][pendingFiles' = withHunkStatus(pendingFiles, last'.filePath, last'.arg,
                                       IF last'.op = "acceptHunk" THEN "accepted"
                                       ELSE "rejected")]_vars

\* A file with a pending delete-only hunk and a hunk the user has marked:
\* one widget, placed below.
C40_Witness ==
  /\ last.op \in {"acceptHunk", "rejectHunk"}
  /\ \E q \in 1..Len(decorations) :
       decorations[q].kind = "actions" /\ decorations[q].position = "below"
  /\ Cardinality({q \in 1..Len(decorations) : decorations[q].kind = "actions"}) = 1
  /\ Len(pendingFiles[1].hunks) = 2
====
